---- MODULE Spec2Model ----
(***************************************************************************)
(* A model of the schema-driven validation engine of the CMS               *)
(* (validation.ts): validateContentDataForType walks the field list of a   *)
(* content type and type-checks / normalises the payload field by field.   *)
(*                                                                         *)
(* One call of the validator is a behaviour: Init draws the arguments      *)
(* (fields, data) and the host time zone, every loop iteration is one      *)
(* step, and the call ends by returning the record or by throwing a        *)
(* ValidationError.                                                        *)
(***************************************************************************)
EXTENDS Integers, Sequences, FiniteSets, TLC

VARIABLES
    fields,      \* the `fields` argument: the content type's field list
    data,        \* the `data` argument: the payload, a map from keys to values
    tz,          \* the host's time zone: minutes that local time is ahead of UTC
    i,           \* position of the `for (const field of fields)` loop
    validated,   \* the `validated` record under construction
    outcome,     \* "running", "returned" or "threw"
    result,      \* the value the call returned (NoRecord while none)
    error,       \* the ValidationError the call threw (NoError while none)
    other,       \* the locals of another call of the validator (NoCall while none)
    contentTypes,\* the table content_types: a map from ids to rows
    response,    \* the response to the last request (NoResponse while none)
    idArg,       \* the `id` argument of validateUUID
    dataType,    \* the `type` argument of validateData
    entries,     \* Object.entries(data) of validateData: the [key, value] pairs
    contents,    \* the table contents: a map from ids to rows
    handlers,    \* the requests to the content routes, in the order they came
    activityLogs,\* the table activity_logs: the rows in the order they were put
    generated,   \* how many ids have been generated, table by table
    contentTypeStore, \* the Map contentTypeStore of the demo server
    contentStore \* the Map contentStore of the demo server

\* what a call of validateContentDataForType does not touch
\* what the content-type routes of the database-backed server do not touch
stores == <<contents, activityLogs, contentTypeStore, contentStore>>

elsewhere == <<other, contentTypes, response, idArg, dataType, entries,
               generated, stores, handlers>>

\* the variables of the calls of the validation functions
call == <<fields, data, tz, i, validated, outcome, result, error, other,
          idArg, dataType, entries>>

vars == <<fields, data, tz, i, validated, outcome, result, error, other,
          contentTypes, response, idArg, dataType, entries,
          contents, handlers, activityLogs, generated, contentTypeStore, contentStore>>

-----------------------------------------------------------------------------
(* JavaScript values.  Every value is a record of one shape:               *)
(*   t    the runtime type: what typeof gives, "null" for null and "Date"  *)
(*        for an instance of Date;                                         *)
(*   nan  a number that is NaN, a Date whose time value is NaN;            *)
(*   num  the number, 0/1 for a boolean, the day number of a Date;         *)
(*   ms   the millisecond within the day of a Date;                        *)
(*   pre, run, post                                                        *)
(*        the characters of a string: the characters pre, then run times   *)
(*        the character FillChar, then the characters post.  The run       *)
(*        stands for the bulk of a base64 payload of millions of           *)
(*        characters.                                                      *)

FillChar == "A"

JSValue(t, nan, num, ms, pre, run, post) ==
    [t |-> t, nan |-> nan, num |-> num, ms |-> ms, pre |-> pre, run |-> run, post |-> post]

Undefined == JSValue("undefined", FALSE, 0, 0, <<>>, 0, <<>>)
Null      == JSValue("null", FALSE, 0, 0, <<>>, 0, <<>>)
Num(n)    == JSValue("number", FALSE, n, 0, <<>>, 0, <<>>)
NumNaN    == JSValue("number", TRUE, 0, 0, <<>>, 0, <<>>)
\* the number Infinity, which JSON.parse gives for a literal such as 1e999
Infinity  == JSValue("number", FALSE, 0, 0, <<"I", "n", "f", "i", "n", "i", "t", "y">>, 0, <<>>)
Bool(b)   == JSValue("boolean", FALSE, IF b THEN 1 ELSE 0, 0, <<>>, 0, <<>>)
Str(s)    == JSValue("string", FALSE, 0, 0, s, 0, <<>>)
Base64Str(pre, run, post) == JSValue("string", FALSE, 0, 0, pre, run, post)
DateObj(day, ms) == JSValue("Date", FALSE, day, ms, <<>>, 0, <<>>)
InvalidDateObj   == JSValue("Date", TRUE, 0, 0, <<>>, 0, <<>>)

\* typeof value
TypeOf(v) ==
    CASE v.t = "null" -> "object"
      [] v.t = "Date" -> "object"
      [] OTHER        -> v.t

\* value instanceof Date
InstanceOfDate(v) == v.t = "Date"

\* value === null || value === undefined
IsNullish(v) == v.t = "null" \/ v.t = "undefined"

\* data[field.name]: an absent key reads as undefined.  (The keys here are
\* not names that Object.prototype defines, such as "constructor": under
\* such a name an absent key reads as the inherited member.)
Get(obj, key) == IF key \in DOMAIN obj THEN obj[key] ELSE Undefined

\* the characters of a string, its run of FillChar collapsed to one FillChar
\* (for pattern matching: FillChar is no line terminator and no character
\* of a pattern the code matches, so a run behaves as one FillChar does)
Collapsed(v) == v.pre \o (IF v.run > 0 THEN <<FillChar>> ELSE <<>>) \o v.post

\* string.length
StrLength(v) == Len(v.pre) + v.run + Len(v.post)

-----------------------------------------------------------------------------
(* Field definitions (types.ts, Field): name, type, optional?, options?.   *)
(* optional is "true", "false" or "unset" (the key is absent).             *)

FieldTypes == {"number", "text", "date", "boolean", "relation", "media", "enum", "price"}

Field(name, type, optional, options) ==
    [name |-> name, type |-> type, optional |-> optional, options |-> options]

\* a change of Truthy: an absent optional key counts as optional
TruthyWhenUnset(optional) == optional # "false"

\* the truth value of field.optional: an absent key is undefined, which is falsy
Truthy(optional) == optional = "true"

NoRecord == [none |-> TRUE]
NoError  == [field |-> "", reason |-> ""]

EmptyRecord == [k \in {} |-> Undefined]

\* the tables contents and activity_logs and the Maps of the demo server
\* are empty, no request to a content route has come and no id has been
\* generated
InitStores ==
    /\ contents = EmptyRecord
    /\ handlers = <<>>
    /\ activityLogs = <<>>
    /\ generated = [content_types |-> 0, contents |-> 0, demo |-> 0]
    /\ contentTypeStore = EmptyRecord
    /\ contentStore = EmptyRecord

\* no other call
NoCall == [i |-> 0, validated |-> EmptyRecord, outcome |-> "none",
           result |-> NoRecord, error |-> NoError]

\* validated[name] = v
Assign(rec, name, v) == [k \in DOMAIN rec \cup {name} |-> IF k = name THEN v ELSE rec[k]]

-----------------------------------------------------------------------------
(* Characters and character sequences.                                     *)

\* the characters of a string literal of the source, one per element
Chars_data    == <<"d", "a", "t", "a", ":">>
Chars_base64  == <<";", "b", "a", "s", "e", "6", "4", ",">>

\* the characters `.` does not match in a JavaScript regular expression
\* (U+2028 and U+2029 are line terminators too; no input here holds them)
LineTerminators == {"\n", "\r"}

DigitChars == <<"0", "1", "2", "3", "4", "5", "6", "7", "8", "9">>
IsDigit(c) == \E d \in 1..10 : DigitChars[d] = c
DigitVal(c) == (CHOOSE d \in 1..10 : DigitChars[d] = c) - 1
AllDigits(s) == \A k \in 1..Len(s) : IsDigit(s[k])

RECURSIVE ToNumber(_)
ToNumber(s) ==
    IF s = <<>> THEN 0
    ELSE ToNumber(SubSeq(s, 1, Len(s) - 1)) * 10 + DigitVal(s[Len(s)])

\* n in decimal, padded with zeros to at least `width` characters
RECURSIVE PadStart(_, _)
PadStart(n, width) ==
    IF width <= 1 /\ n < 10 THEN <<DigitChars[n + 1]>>
    ELSE PadStart(n \div 10, width - 1) \o <<DigitChars[(n % 10) + 1]>>

\* s has the characters of lit at position p
OccursAt(s, lit, p) ==
    /\ p >= 1
    /\ p + Len(lit) - 1 <= Len(s)
    /\ \A k \in 1..Len(lit) : s[p + k - 1] = lit[k]

-----------------------------------------------------------------------------
\* case 'media': value.match(/^data:(.+);base64,(.*)$/) and the size check.

\* The positions at which `;base64,` can be the literal of a match: the text
\* starts with `data:`, group 1 (.+) is at least one character, and no
\* character after `data:` is a line terminator (neither group matches
\* one, and $ matches at the end of the input only).
MatchPositions(c) ==
    IF /\ OccursAt(c, Chars_data, 1)
       /\ \A k \in (Len(Chars_data) + 1)..Len(c) : c[k] \notin LineTerminators
    THEN {p \in (Len(Chars_data) + 2)..Len(c) : OccursAt(c, Chars_base64, p)}
    ELSE {}

\* if (matches): the pattern matches the value
matches(value) == MatchPositions(Collapsed(value)) # {}

\* where matches[2] starts in the collapsed text.  (.+) is greedy, so the
\* literal of the match is the last `;base64,` of the text.
Group2Start(value) ==
    LET ps == MatchPositions(Collapsed(value))
    IN  (CHOOSE p \in ps : \A q \in ps : q <= p) + Len(Chars_base64)

\* the length of the text of `value` from position q of its collapsed form
LengthFrom(value, q) ==
    IF value.run > 0 /\ q > Len(value.pre) + 1
    THEN Len(value.post) - (q - Len(value.pre) - 2)
    ELSE StrLength(value) - (q - 1)

\* base64Data.length: of matches[2] when the pattern matched, of value otherwise
base64DataLength(value) ==
    IF matches(value) THEN LengthFrom(value, Group2Start(value))
    ELSE StrLength(value)

\* 2 * 1024 * 1024
MaxMediaBytes == 2 * 1024 * 1024

\* Math.ceil((base64Data.length * 3) / 4)
sizeInBytes(length) == (length * 3 + 3) \div 4

\* sizeInBytes > 2 * 1024 * 1024
ExceedsLimit(value) == sizeInBytes(base64DataLength(value)) > MaxMediaBytes

-----------------------------------------------------------------------------
(* case 'date': new Date(value), date.getTime(), date.toISOString().       *)
(* The time value of a Date is NaN or an instant; an instant is kept as    *)
(* the day number since 1970-01-01 and the millisecond within that day     *)
(* (the millisecond count itself is beyond a 32-bit integer).              *)
(* The day arithmetic is ECMAScript's (Day Number and Time within Day,     *)
(* Year Number, Month Number, MakeDay, MakeTime, UTC).                     *)

NaNTime == [nan |-> TRUE, day |-> 0, ms |-> 0]
TimeValue(day, ms) == [nan |-> FALSE, day |-> day, ms |-> ms]

msPerMinute == 60 * 1000
msPerDay == 24 * 60 * msPerMinute

DayFromYear(y) ==
    365 * (y - 1970) + ((y - 1969) \div 4) - ((y - 1901) \div 100) + ((y - 1601) \div 400)
DaysInYear(y) == DayFromYear(y + 1) - DayFromYear(y)
InLeapYear(y) == DaysInYear(y) = 366

\* the day within the year on which month m (1..12) starts; m = 13 ends the year
MonthStart(y, m) ==
    <<0, 31, 59, 90, 120, 151, 181, 212, 243, 273, 304, 334, 365>>[m]
        + (IF InLeapYear(y) /\ m >= 3 THEN 1 ELSE 0)

MakeDay(y, m, d) == DayFromYear(y) + MonthStart(y, m) + (d - 1)
MakeTime(h, mi, sec, milli) == ((h * 60 + mi) * 60 + sec) * 1000 + milli

YearFromDay(day) ==
    CHOOSE y \in (1969 + (day \div 366))..(1971 + (day \div 365)) :
        DayFromYear(y) <= day /\ day < DayFromYear(y + 1)
MonthFromDay(day) ==
    LET y == YearFromDay(day)
    IN  CHOOSE m \in 1..12 :
            /\ MonthStart(y, m) <= day - DayFromYear(y)
            /\ day - DayFromYear(y) < MonthStart(y, m + 1)
DateFromDay(day) ==
    day - DayFromYear(YearFromDay(day)) - MonthStart(YearFromDay(day), MonthFromDay(day)) + 1

\* the instant of a local date and time on a host whose local time is
\* `zone` minutes ahead of UTC
UTC(day, ms, zone) ==
    LET t == ms - zone * msPerMinute
    IN  TimeValue(day + (t \div msPerDay), t % msPerDay)

\* The forms of the ECMAScript date-time string format the model reads:
\*   YYYY-MM-DD                  a date-only form: UTC
\*   YYYY-MM-DDTHH:mm:ss         a date-time form without offset: local time
\*   YYYY-MM-DDTHH:mm:ss.sssZ    a date-time form with the offset Z: UTC
IsDateOnly(c) ==
    /\ Len(c) = 10
    /\ AllDigits(SubSeq(c, 1, 4)) /\ c[5] = "-"
    /\ AllDigits(SubSeq(c, 6, 7)) /\ c[8] = "-"
    /\ AllDigits(SubSeq(c, 9, 10))
IsDateTimeAt(c) ==
    /\ IsDateOnly(SubSeq(c, 1, 10)) /\ c[11] = "T"
    /\ AllDigits(SubSeq(c, 12, 13)) /\ c[14] = ":"
    /\ AllDigits(SubSeq(c, 15, 16)) /\ c[17] = ":"
    /\ AllDigits(SubSeq(c, 18, 19))
IsLocalDateTime(c) == Len(c) = 19 /\ IsDateTimeAt(c)
IsUTCDateTime(c) ==
    /\ Len(c) = 24 /\ IsDateTimeAt(c)
    /\ c[20] = "." /\ AllDigits(SubSeq(c, 21, 23)) /\ c[24] = "Z"

YearOf(c)   == ToNumber(SubSeq(c, 1, 4))
MonthOf(c)  == ToNumber(SubSeq(c, 6, 7))
DayOf(c)    == ToNumber(SubSeq(c, 9, 10))
HourOf(c)   == ToNumber(SubSeq(c, 12, 13))
MinuteOf(c) == ToNumber(SubSeq(c, 15, 16))
SecondOf(c) == ToNumber(SubSeq(c, 18, 19))
MilliOf(c)  == ToNumber(SubSeq(c, 21, 23))

\* the parser of the runtime (V8) takes months 1..12 and days 1..31, and
\* MakeDay carries a day past the end of the month into the next month
LegalDate(c) == MonthOf(c) \in 1..12 /\ DayOf(c) \in 1..31
LegalTime(c) == HourOf(c) \in 0..23 /\ MinuteOf(c) \in 0..59 /\ SecondOf(c) \in 0..59

\* the strings whose parse the model states: the three forms above, and
\* the strings without any digit (no date can be read from them)
DateModelled(v) ==
    LET c == Collapsed(v)
    IN  \/ IsDateOnly(c) \/ IsLocalDateTime(c) \/ IsUTCDateTime(c)
        \/ \A k \in 1..Len(c) : ~IsDigit(c[k])

\* a change of DateParse: a date-only text is read as local time, as a
\* date-time text without offset is
DateParseAllLocal(v, zone) ==
    LET c == Collapsed(v)
    IN  CASE IsDateOnly(c) ->
                IF LegalDate(c)
                THEN UTC(MakeDay(YearOf(c), MonthOf(c), DayOf(c)), 0, zone)
                ELSE NaNTime
          [] IsLocalDateTime(c) ->
                IF LegalDate(c) /\ LegalTime(c)
                THEN UTC(MakeDay(YearOf(c), MonthOf(c), DayOf(c)),
                         MakeTime(HourOf(c), MinuteOf(c), SecondOf(c), 0), zone)
                ELSE NaNTime
          [] IsUTCDateTime(c) ->
                IF LegalDate(c) /\ LegalTime(c)
                THEN UTC(MakeDay(YearOf(c), MonthOf(c), DayOf(c)),
                         MakeTime(HourOf(c), MinuteOf(c), SecondOf(c), MilliOf(c)), 0)
                ELSE NaNTime
          [] OTHER -> NaNTime

\* Date.parse(string) on a host in time zone `zone`
DateParse(v, zone) ==
    LET c == Collapsed(v)
    IN  CASE IsDateOnly(c) ->
                IF LegalDate(c)
                THEN TimeValue(MakeDay(YearOf(c), MonthOf(c), DayOf(c)), 0)
                ELSE NaNTime
          [] IsLocalDateTime(c) ->
                IF LegalDate(c) /\ LegalTime(c)
                THEN UTC(MakeDay(YearOf(c), MonthOf(c), DayOf(c)),
                         MakeTime(HourOf(c), MinuteOf(c), SecondOf(c), 0), zone)
                ELSE NaNTime
          [] IsUTCDateTime(c) ->
                IF LegalDate(c) /\ LegalTime(c)
                THEN UTC(MakeDay(YearOf(c), MonthOf(c), DayOf(c)),
                         MakeTime(HourOf(c), MinuteOf(c), SecondOf(c), MilliOf(c)), 0)
                ELSE NaNTime
          [] OTHER -> NaNTime

\* new Date(value).getTime(), value a string or a Date
NewDate(value, zone) ==
    IF InstanceOfDate(value)
    THEN (IF value.nan THEN NaNTime ELSE TimeValue(value.num, value.ms))
    ELSE DateParse(value, zone)

\* date.toISOString(), for the years 0..9999: YYYY-MM-DDTHH:mm:ss.sssZ
toISOString(time) ==
    Str(PadStart(YearFromDay(time.day), 4) \o <<"-">>
        \o PadStart(MonthFromDay(time.day), 2) \o <<"-">>
        \o PadStart(DateFromDay(time.day), 2) \o <<"T">>
        \o PadStart(time.ms \div (60 * msPerMinute), 2) \o <<":">>
        \o PadStart((time.ms \div msPerMinute) % 60, 2) \o <<":">>
        \o PadStart((time.ms \div 1000) % 60, 2) \o <<".">>
        \o PadStart(time.ms % 1000, 3) \o <<"Z">>)

-----------------------------------------------------------------------------
(* validateContentDataForType(data, fields), one loop iteration per step.  *)

field == fields[i]
value == Get(data, field.name)

\* the loop is at a field
InLoop == outcome = "running" /\ i <= Len(fields)

\* throw new ValidationError(`Field '${field.name}' ...`): the call ends, and
\* nothing is returned
Throw(reason) ==
    /\ outcome' = "threw"
    /\ error' = [field |-> field.name, reason |-> reason]
    /\ UNCHANGED <<fields, data, tz, i, validated, result, elsewhere>>

\* a change of NextField: the validated value is written back into the
\* payload as well
NextFieldIntoPayload(rec) ==
    /\ validated' = rec
    /\ i' = i + 1
    /\ data' = [k \in DOMAIN data \cup DOMAIN rec |->
                    IF k \in DOMAIN rec THEN rec[k] ELSE data[k]]
    /\ UNCHANGED <<fields, tz, outcome, result, error, elsewhere>>

\* the iteration ends (break / continue) with `validated` being rec
NextField(rec) ==
    /\ validated' = rec
    /\ i' = i + 1
    /\ UNCHANGED <<fields, data, tz, outcome, result, error, elsewhere>>

\* if ((value === null || value === undefined) && !field.optional) throw
MissingRequired ==
    /\ InLoop
    /\ IsNullish(value) /\ ~Truthy(field.optional)
    /\ Throw("is required and cannot be null or undefined")

\* a change of SkipOptional: the missing value is assigned, not skipped
SkipOptionalAssigns ==
    /\ InLoop
    /\ IsNullish(value) /\ Truthy(field.optional)
    /\ NextField(Assign(validated, field.name, value))

\* if (value === null || value === undefined) continue
SkipOptional ==
    /\ InLoop
    /\ IsNullish(value) /\ Truthy(field.optional)
    /\ NextField(validated)

\* the switch is reached with a value that is neither null nor undefined
InSwitch(type) == InLoop /\ ~IsNullish(value) /\ field.type = type

CaseNumber ==
    /\ InSwitch("number")
    /\ IF TypeOf(value) # "number"
       THEN Throw("must be a number")
       ELSE NextField(Assign(validated, field.name, value))

CaseText ==
    /\ InSwitch("text")
    /\ IF TypeOf(value) # "string"
       THEN Throw("must be a string")
       ELSE NextField(Assign(validated, field.name, value))

CaseDate ==
    /\ InSwitch("date")
    /\ IF TypeOf(value) = "string" \/ InstanceOfDate(value)
       THEN \E date \in {NewDate(value, tz)} :
                IF date.nan
                THEN Throw("must be a valid date")
                ELSE NextField(Assign(validated, field.name, toISOString(date)))
       ELSE Throw("must be a date string or Date object")

CaseBoolean ==
    /\ InSwitch("boolean")
    /\ IF TypeOf(value) # "boolean"
       THEN Throw("must be a boolean")
       ELSE NextField(Assign(validated, field.name, value))

\* a change of CaseRelation: the value is stored without the typeof check
CaseRelationUnchecked ==
    /\ InSwitch("relation")
    /\ NextField(Assign(validated, field.name, value))

CaseRelation ==
    /\ InSwitch("relation")
    /\ IF TypeOf(value) # "string"
       THEN Throw("must be a string (relation id)")
       ELSE NextField(Assign(validated, field.name, value))

CaseMedia ==
    /\ InSwitch("media")
    /\ IF TypeOf(value) # "string"
       THEN Throw("must be a base64-encoded string for type 'media'")
       ELSE IF ExceedsLimit(value)
            THEN Throw("exceeds 2MB size limit for type 'media'")
            ELSE NextField(Assign(validated, field.name, value))

\* the types the switch has a case for
CaseTypes == {"number", "text", "date", "boolean", "relation", "media"}

\* a change of NoCase: the switch has a default that assigns the value
NoCaseAssigns ==
    /\ InLoop /\ ~IsNullish(value) /\ field.type \notin CaseTypes
    /\ NextField(Assign(validated, field.name, value))

\* the switch has no case for field.type and no default: nothing is checked
\* and nothing is assigned
NoCase ==
    /\ InLoop /\ ~IsNullish(value) /\ field.type \notin CaseTypes
    /\ NextField(validated)

\* a change of Return: the keys of the payload the loop did not visit are
\* returned with the validated ones
ReturnWithPayload ==
    /\ outcome = "running" /\ i > Len(fields)
    /\ outcome' = "returned"
    /\ result' = [k \in DOMAIN data \cup DOMAIN validated |->
                    IF k \in DOMAIN validated THEN validated[k] ELSE data[k]]
    /\ UNCHANGED <<fields, data, tz, i, validated, error, elsewhere>>

\* return validated
Return ==
    /\ outcome = "running" /\ i > Len(fields)
    /\ outcome' = "returned"
    /\ result' = validated
    /\ UNCHANGED <<fields, data, tz, i, validated, error, elsewhere>>

-----------------------------------------------------------------------------
(* validateData(data, type), one loop iteration per step.                  *)

\* const [key, value] of Object.entries(data)
entry == entries[i]

InDataLoop == outcome = "running" /\ i <= Len(entries)

\* throw new ValidationError(`Field '${key}' ...`)
DataThrow(reason) ==
    /\ outcome' = "threw"
    /\ error' = [field |-> entry.key, reason |-> reason]
    /\ UNCHANGED <<fields, data, tz, i, validated, result, elsewhere>>

\* the iteration ends (break) with `validated` being rec
NextEntry(rec) ==
    /\ validated' = rec
    /\ i' = i + 1
    /\ UNCHANGED <<fields, data, tz, outcome, result, error, elsewhere>>

\* a change of DataNullish: a missing value is skipped, as the schema-driven
\* validator skips the missing value of an optional field
DataNullishSkipped ==
    /\ InDataLoop
    /\ IsNullish(entry.value)
    /\ NextEntry(validated)

\* if (value === null || value === undefined) throw
DataNullish ==
    /\ InDataLoop
    /\ IsNullish(entry.value)
    /\ DataThrow("cannot be null or undefined")

InDataSwitch(type) == InDataLoop /\ ~IsNullish(entry.value) /\ dataType = type

DataCaseNumber ==
    /\ InDataSwitch("number")
    /\ IF TypeOf(entry.value) # "number"
       THEN DataThrow("must be a number for type 'number'")
       ELSE NextEntry(Assign(validated, entry.key, entry.value))

DataCaseText ==
    /\ InDataSwitch("text")
    /\ IF TypeOf(entry.value) # "string"
       THEN DataThrow("must be a string for type 'text'")
       ELSE NextEntry(Assign(validated, entry.key, entry.value))

DataCaseDate ==
    /\ InDataSwitch("date")
    /\ IF TypeOf(entry.value) = "string" \/ InstanceOfDate(entry.value)
       THEN \E date \in {NewDate(entry.value, tz)} :
                IF date.nan
                THEN DataThrow("must be a valid date for type 'date'")
                ELSE NextEntry(Assign(validated, entry.key, toISOString(date)))
       ELSE DataThrow("must be a date string or Date object for type 'date'")

DataCaseMedia ==
    /\ InDataSwitch("media")
    /\ IF TypeOf(entry.value) # "string"
       THEN DataThrow("must be a base64-encoded string for type 'media'")
       ELSE IF ExceedsLimit(entry.value)
            THEN DataThrow("exceeds 2MB size limit for type 'media'")
            ELSE NextEntry(Assign(validated, entry.key, entry.value))

\* the types the switch of validateData has a case for
DataCaseTypes == {"number", "text", "date", "media"}

\* the switch has no case for `type` and no default: nothing is checked and
\* nothing is assigned
DataNoCase ==
    /\ InDataLoop /\ ~IsNullish(entry.value) /\ dataType \notin DataCaseTypes
    /\ NextEntry(validated)

\* return validated
DataReturn ==
    /\ outcome = "running" /\ i > Len(entries)
    /\ outcome' = "returned"
    /\ result' = validated
    /\ UNCHANGED <<fields, data, tz, i, validated, error, elsewhere>>

-----------------------------------------------------------------------------
(* validateUUID(id):                                                        *)
(*   /^[0-9a-f]{8}-[0-9a-f]{4}-[0-9a-f]{4}-[0-9a-f]{4}-[0-9a-f]{12}$/i      *)

\* the quantifiers {8}, {4}, {4}, {4}, {12} of the five groups
uuidGroups == <<8, 4, 4, 4, 12>>

\* where group g starts in a text the pattern matches (a `-` between groups)
RECURSIVE GroupStart(_)
GroupStart(g) == IF g = 1 THEN 1 ELSE GroupStart(g - 1) + uuidGroups[g - 1] + 1

\* a change of ClassHex: the class without the flag i
ClassHexCaseSensitive(ch) == IsDigit(ch) \/ ch \in {"a", "b", "c", "d", "e", "f"}

\* [0-9a-f] under the flag i: a character matches when it or its other
\* case is in the class
ClassHex(ch) ==
    \/ IsDigit(ch)
    \/ ch \in {"a", "b", "c", "d", "e", "f"}
    \/ ch \in {"A", "B", "C", "D", "E", "F"}

\* uuidRegex.test(id): ^ and $ are the start and the end of the text (no
\* flag m), so the text is the five groups and the four hyphens, no more
uuidRegexTest(c) ==
    /\ Len(c) = GroupStart(Len(uuidGroups)) + uuidGroups[Len(uuidGroups)] - 1
    /\ \A g \in 1..Len(uuidGroups) :
            /\ \A k \in GroupStart(g)..(GroupStart(g) + uuidGroups[g] - 1) : ClassHex(c[k])
            /\ g > 1 => c[GroupStart(g) - 1] = "-"

\* validateUUID(id)
validateUUID ==
    /\ outcome = "running"
    /\ IF ~uuidRegexTest(Collapsed(idArg))
       THEN /\ outcome' = "threw"
            /\ error' = [field |-> "", reason |-> "Invalid UUID format"]
       ELSE /\ outcome' = "returned"
            /\ UNCHANGED error
    /\ UNCHANGED <<fields, data, tz, i, validated, result, elsewhere>>

-----------------------------------------------------------------------------
(* The content types (index.ts): POST /content-type/create and             *)
(* POST /content-type/update check the request body and write the table    *)
(* content_types (queries.ts; the schema is in MODULAR_STRUCTURE.md).       *)

\* A value of a request body that is a string, known by its whole text, or
\* is no string: t is its runtime type ("undefined" for a key the body
\* does not have, "number" for a number other than 0).
Text(s) == [t |-> "string", text |-> s]
NoText(t) == [t |-> t, text |-> ""]

\* !v
Not(v) == v.t \in {"undefined", "null"} \/ (v.t = "string" /\ v.text = "")

\* an array of a request body, or a value that is no array
Array(items) == [isArray |-> TRUE, present |-> TRUE, items |-> items]
NoArray == [isArray |-> FALSE, present |-> TRUE, items |-> <<>>]
NoKey == [isArray |-> FALSE, present |-> FALSE, items |-> <<>>]

\* a field definition of a request body
FieldDef(name, type, options) == [name |-> name, type |-> type, options |-> options]

\* const validTypes: FieldType[] = [...]
validTypes == <<"number", "text", "date", "boolean", "relation", "media">>

\* validTypes.includes(type)
includes(type) == type.t = "string" /\ \E k \in 1..Len(validTypes) : validTypes[k] = type.text

NoResponse == [status |-> 0, error |-> "", about |-> ""]
Json(status) == [status |-> status, error |-> "", about |-> ""]

\* errorHandler: a ValidationError is answered with 400 and its message
\* (the message is kept as its fixed wording and the text it quotes)
BadRequest(message, about) == [status |-> 400, error |-> message, about |-> about]

\* validateFieldType(field.type): the response to the ValidationError it
\* throws, NoResponse when it returns
validateFieldType(type) ==
    IF ~includes(type)
    THEN BadRequest("Invalid field type", type.text)
    ELSE NoResponse

\* one iteration of `for (const field of fields)` of the two routes: the
\* response to the ValidationError it throws, NoResponse when it throws none
CheckField(f) ==
    IF Not(f.name) \/ f.name.t # "string"
    THEN BadRequest("Each field must have a name of type string", "")
    ELSE IF validateFieldType(f.type) # NoResponse
    THEN validateFieldType(f.type)
    ELSE IF /\ f.type = Text("enum")
            /\ \/ ~f.options.isArray
               \/ Len(f.options.items) = 0
               \/ \E k \in 1..Len(f.options.items) : f.options.items[k].t # "string"
    THEN BadRequest("of type 'enum' must have a non-empty 'options' array of strings",
                    f.name.text)
    ELSE NoResponse

\* the checks of name and fields of the two routes, the first failure first
CheckBody(name, fs) ==
    IF Not(name) \/ name.t # "string"
    THEN BadRequest("Content type name is required and must be a string", "")
    ELSE IF ~fs.isArray \/ Len(fs.items) = 0
    THEN BadRequest("Fields must be a non-empty array", "")
    ELSE IF \E k \in 1..Len(fs.items) : CheckField(fs.items[k]) # NoResponse
    THEN CheckField(fs.items[CHOOSE k \in 1..Len(fs.items) :
                        /\ CheckField(fs.items[k]) # NoResponse
                        /\ \A j \in 1..(k - 1) : CheckField(fs.items[j]) = NoResponse])
    ELSE NoResponse

\* the most rows the table holds
MaxTypes == 1

\* the values of gen_random_uuid()
TypeIds == 1..MaxTypes

\* name TEXT NOT NULL UNIQUE: no row other than `id` has the name
NameIsFree(name, id) ==
    \A other_id \in DOMAIN contentTypes \ {id} : contentTypes[other_id].name # name

\* the request changes nothing but the response
Respond(r) ==
    /\ response' = r
    /\ UNCHANGED <<contentTypes, call, generated, stores>>

\* POST /content-type/create with the body {name, fields}
createContentType(name, fs) ==
    LET refusal == CheckBody(name, fs)
    IN
    IF refusal # NoResponse
    THEN Respond(refusal)
    \* queries.createContentType({ name, fields }): the row holds the
    \* fields as JSON.stringify writes and the column reads them back, which
    \* for the bodies here is the array as it came
    ELSE IF ~NameIsFree(name.text, 0)
    THEN Respond(Json(500))
    \* DEFAULT gen_random_uuid(): an id no row has or had
    ELSE \E id \in {generated.content_types + 1} \cap TypeIds :
            /\ contentTypes' =
                    [k \in DOMAIN contentTypes \cup {id} |->
                        IF k = id THEN [name |-> name.text, fields |-> fs.items]
                        ELSE contentTypes[k]]
            /\ generated' = [generated EXCEPT !.content_types = id]
            /\ response' = Json(200)
            /\ UNCHANGED <<call, stores>>

\* the ids of a request body: of a row (a number of TypeIds), of no row
\* (a UUID no row has) or no UUID at all, or no string
IdOf(k) == [t |-> "string", text |-> "uuid", row |-> k]
UnknownId == [t |-> "string", text |-> "uuid", row |-> 0]
MalformedId == [t |-> "string", text |-> "not-a-uuid", row |-> 0]
NoId == [t |-> "undefined", text |-> "", row |-> 0]

\* POST /content-type/update with the body {id, name, fields}
updateContentType(id, name, fs) ==
    IF Not(id) \/ id.t # "string"
    THEN Respond(BadRequest("Content type id is required and must be a string", ""))
    ELSE IF CheckBody(name, fs) # NoResponse
    THEN Respond(CheckBody(name, fs))
    \* queries.updateContentType(id, name, fields)
    ELSE IF id.text # "uuid"
    THEN Respond(Json(500))
    ELSE IF id.row \notin DOMAIN contentTypes
    THEN Respond(Json(404))
    ELSE IF ~NameIsFree(name.text, id.row)
    THEN Respond(Json(500))
    ELSE /\ contentTypes' =
                [contentTypes EXCEPT ![id.row] = [name |-> name.text, fields |-> fs.items]]
         /\ response' = Json(200)
         /\ UNCHANGED <<call, generated, stores>>

-----------------------------------------------------------------------------
(* The content routes of the database-backed server (index.ts) and the     *)
(* queries they await (queries.ts).  A handler runs from one await to the  *)
(* next without interruption, so a step of a handler is one query and the  *)
(* synchronous code after it; the steps of several handlers interleave.    *)
(* The requests carry no Authorization header.                             *)

\* JSON.stringify(value) read back from a JSONB column: a number that is
\* not finite becomes null, a Date becomes the string its toJSON gives
JSONValue(v) ==
    CASE v.t = "number" /\ (v.nan \/ v = Infinity) -> Null
      [] v.t = "Date" -> IF v.nan THEN Null ELSE toISOString(v)
      [] OTHER -> v

\* JSON.stringify(input.data) read back from the column `data`: a key
\* whose value is undefined is left out
JSONObject(rec) ==
    [k \in {n \in DOMAIN rec : rec[n].t # "undefined"} |-> JSONValue(rec[k])]

\* contentType.fields as validateContentDataForType reads them: an absent
\* key `optional` reads as undefined
FieldsOfRow(row) ==
    [k \in 1..Len(row.fields) |->
        Field(row.fields[k].name.text, row.fields[k].type.text,
              IF "optional" \in DOMAIN row.fields[k] THEN row.fields[k].optional
              ELSE "unset",
              <<>>)]

\* the most rows the table contents gets, and the values of its
\* gen_random_uuid()
MaxContents == 2
ContentIds == 1..MaxContents

\* the `data` of a request body that has no key `data`
NoData == [none |-> TRUE]

\* the text of the id of row k of the table contents (of no row for k = 0):
\* a UUID in lower case that ends with the digit k
UUIDOf(k) ==
    <<"1", "2", "3", "e", "4", "5", "6", "7", "-", "e", "8", "9", "b", "-",
      "4", "2", "d", "3", "-", "a", "4", "5", "6", "-",
      "4", "2", "6", "6", "1", "4", "1", "7", "4", "0", "0">> \o PadStart(k, 1)

\* WHERE id = $1 on the table contents: the rows the text identifies
RowsWithId(id) == {k \in DOMAIN contents : Str(UUIDOf(k)) = id}

\* a request to a content route: the route, the keys id, content_type_id
\* and data of its body, and the locals of its handler
Request(route, id, content_type_id, payload) ==
    [route |-> route, pc |-> "start", id |-> id,
     content_type_id |-> content_type_id, data |-> payload,
     existing |-> NoRecord, contentType |-> NoRecord,
     validatedData |-> NoRecord, content |-> 0, response |-> NoResponse]

\* handler h is at the await `pc` of its route, and no call of the validator
\* is under way
At(h, route, pc) ==
    /\ h \in DOMAIN handlers
    /\ handlers[h].route = route /\ handlers[h].pc = pc
    /\ outcome = "none"

\* the tables and Maps a step of a handler that writes no table leaves alone
tables == <<contentTypes, contents, activityLogs, generated,
            contentTypeStore, contentStore>>

\* what a step of a handler leaves alone when it starts no call of the
\* validator
idle == <<call, response>>

\* return res.status(...).json(...): the handler ends
Reply(h, r) ==
    handlers' = [handlers EXCEPT ![h].pc = "done", ![h].response = r]

\* a change of NotFound: a missing row is answered with success
FoundAnyway == [status |-> 200, error |-> "", about |-> ""]

\* res.status(404).json({ success: false, error: 'Content not found' })
NotFound == [status |-> 404, error |-> "Content not found", about |-> ""]

\* next(error) with an error that is no ValidationError: errorHandler
\* answers 500
InternalError == [status |-> 500, error |-> "Internal server error", about |-> ""]

\* validateContentDataForType(data, contentType.fields) starts; a body
\* without `data` makes data[field.name] a TypeError
StartValidation(h, row) ==
    IF handlers[h].data = NoData
    THEN /\ Reply(h, InternalError)
         /\ UNCHANGED <<tables, idle>>
    ELSE /\ handlers' = [handlers EXCEPT ![h].pc = "validating", ![h].contentType = row]
         /\ fields' = FieldsOfRow(row)
         /\ data' = handlers[h].data
         /\ i' = 1
         /\ validated' = EmptyRecord
         /\ outcome' = "running"
         /\ result' = NoRecord
         /\ error' = NoError
         /\ UNCHANGED <<tz, other, idArg, dataType, entries, response, tables>>

\* the call of the validator ended: validatedData is what it returned, and
\* what it threw is answered by errorHandler
Validated(h) ==
    /\ h \in DOMAIN handlers /\ handlers[h].pc = "validating"
    /\ outcome \in {"returned", "threw"}
    /\ IF outcome = "threw"
       THEN Reply(h, BadRequest(error.reason, error.field))
       ELSE handlers' = [handlers EXCEPT ![h].pc = "write", ![h].validatedData = result]
    /\ fields' = <<>>
    /\ data' = EmptyRecord
    /\ i' = 1
    /\ validated' = EmptyRecord
    /\ outcome' = "none"
    /\ result' = NoRecord
    /\ error' = NoError
    /\ UNCHANGED <<tz, other, idArg, dataType, entries, response, tables>>

\* INSERT INTO activity_logs, then res.json({ success: true, ... })
LogActivity(h, action) ==
    /\ At(h, handlers[h].route, "log")
    /\ handlers[h].route = action
    /\ activityLogs' = Append(activityLogs,
                              [action |-> action, target_id |-> handlers[h].content])
    /\ Reply(h, Json(200))
    /\ UNCHANGED <<contentTypes, contents, generated, contentTypeStore, contentStore, idle>>

\* POST /content/create: queries.getContentTypeById(content_type_id).  The
\* column is of type UUID: a text that is no UUID makes the query fail, and
\* undefined is sent as NULL, which no row equals.
CreateGetType(h) ==
    /\ At(h, "create", "start")
    /\ \E tid \in {handlers[h].content_type_id} :
        IF tid.t = "string" /\ tid.text # "uuid"
        THEN Reply(h, InternalError) /\ UNCHANGED <<tables, idle>>
        ELSE IF tid.row \notin DOMAIN contentTypes
        THEN /\ Reply(h, [status |-> 400, error |-> "Invalid content_type_id", about |-> ""])
             /\ UNCHANGED <<tables, idle>>
        ELSE StartValidation(h, contentTypes[tid.row])

\* queries.createContent({ content_type_id, data: validatedData }): the
\* INSERT fails when content_type_id REFERENCES no row of content_types
CreateInsert(h) ==
    /\ At(h, "create", "write")
    /\ IF handlers[h].content_type_id.row \notin DOMAIN contentTypes
       THEN Reply(h, InternalError) /\ UNCHANGED <<tables, idle>>
       ELSE /\ \E id \in {generated.contents + 1} \cap ContentIds :
                /\ contents' =
                        [k \in DOMAIN contents \cup {id} |->
                            IF k = id
                            THEN [content_type_id |-> handlers[h].content_type_id.row,
                                  data |-> JSONObject(handlers[h].validatedData)]
                            ELSE contents[k]]
                /\ generated' = [generated EXCEPT !.contents = id]
                /\ handlers' = [handlers EXCEPT ![h].pc = "log", ![h].content = id]
            /\ UNCHANGED <<contentTypes, activityLogs, contentTypeStore, contentStore, idle>>

\* validateUUID(id), then queries.readContent(id): the handler goes on to
\* `pc` with the row as `existing`, or ends with 400 or 404
ReadExisting(h, pc) ==
    IF ~uuidRegexTest(Collapsed(handlers[h].id))
    THEN Reply(h, BadRequest("Invalid UUID format", ""))
    ELSE IF RowsWithId(handlers[h].id) = {}
    THEN Reply(h, NotFound)
    ELSE \E k \in RowsWithId(handlers[h].id) :
            IF pc = "done"
            THEN handlers' = [handlers EXCEPT ![h].pc = "done", ![h].content = k,
                                              ![h].existing = contents[k],
                                              ![h].response = Json(200)]
            ELSE handlers' = [handlers EXCEPT ![h].pc = pc, ![h].content = k,
                                              ![h].existing = contents[k]]

\* POST /content/read
ReadContent(h) ==
    /\ At(h, "read", "start")
    /\ ReadExisting(h, "done")
    /\ UNCHANGED <<tables, idle>>

\* POST /content/update: validateUUID(id) and queries.readContent(id)
UpdateRead(h) ==
    /\ At(h, "update", "start")
    /\ ReadExisting(h, "getType")
    /\ UNCHANGED <<tables, idle>>

\* POST /content/update: queries.getContentTypeById(existing.content_type_id)
UpdateGetType(h) ==
    /\ At(h, "update", "getType")
    /\ IF handlers[h].existing.content_type_id \notin DOMAIN contentTypes
       THEN /\ Reply(h, [status |-> 400, error |-> "Content type not found", about |-> ""])
            /\ UNCHANGED <<tables, idle>>
       ELSE StartValidation(h, contentTypes[handlers[h].existing.content_type_id])

\* a change of UpdateWrite: the statement puts the row when there is none
UpdateWriteUpserts(h) ==
    /\ At(h, "update", "write")
    /\ contents' =
            [k \in DOMAIN contents \cup {handlers[h].content} |->
                IF k = handlers[h].content
                THEN [content_type_id |-> handlers[h].existing.content_type_id,
                      data |-> JSONObject(handlers[h].validatedData)]
                ELSE contents[k]]
    /\ handlers' = [handlers EXCEPT ![h].pc = "log"]
    /\ UNCHANGED <<contentTypes, activityLogs, generated, contentTypeStore, contentStore, idle>>

\* queries.updateContent({ id, data: validatedData }): UPDATE contents SET
\* data = $2 WHERE id = $1; no row is answered with 404
UpdateWrite(h) ==
    /\ At(h, "update", "write")
    /\ IF RowsWithId(handlers[h].id) = {}
       THEN Reply(h, NotFound) /\ UNCHANGED contents
       ELSE /\ contents' = [k \in DOMAIN contents |->
                             IF k \in RowsWithId(handlers[h].id)
                             THEN [contents[k] EXCEPT
                                    !.data = JSONObject(handlers[h].validatedData)]
                             ELSE contents[k]]
            /\ handlers' = [handlers EXCEPT ![h].pc = "log"]
    /\ UNCHANGED <<contentTypes, activityLogs, generated, contentTypeStore, contentStore, idle>>

\* POST /content/delete: validateUUID(id) and queries.readContent(id)
DeleteRead(h) ==
    /\ At(h, "delete", "start")
    /\ ReadExisting(h, "write")
    /\ UNCHANGED <<tables, idle>>

\* a change of DeleteWrite: the number of rows deleted is not looked at
DeleteWriteUnchecked(h) ==
    /\ At(h, "delete", "write")
    /\ contents' = [k \in DOMAIN contents \ RowsWithId(handlers[h].id) |-> contents[k]]
    /\ handlers' = [handlers EXCEPT ![h].pc = "log"]
    /\ UNCHANGED <<contentTypes, activityLogs, generated, contentTypeStore, contentStore, idle>>

\* queries.deleteContent(id): DELETE FROM contents WHERE id = $1; no row
\* deleted is answered with 404
DeleteWrite(h) ==
    /\ At(h, "delete", "write")
    /\ IF RowsWithId(handlers[h].id) = {}
       THEN Reply(h, NotFound) /\ UNCHANGED contents
       ELSE /\ contents' = [k \in DOMAIN contents \ RowsWithId(handlers[h].id) |->
                             contents[k]]
            /\ handlers' = [handlers EXCEPT ![h].pc = "log"]
    /\ UNCHANGED <<contentTypes, activityLogs, generated, contentTypeStore, contentStore, idle>>

\* a change of RowsOfType: no row of contents goes with the content type
NoRowsOfType(t) == {}

\* content_type_id UUID NOT NULL REFERENCES content_types(id) ON DELETE
\* CASCADE: the rows of contents that are deleted with the content type t
RowsOfType(t) == {c \in DOMAIN contents : contents[c].content_type_id = t}

\* DELETE /content-type/delete/:id: queries.deleteContentType(id)
deleteContentType(id) ==
    /\ outcome = "none"
    /\ IF id.text # "uuid"
       THEN Respond(InternalError)
       ELSE IF id.row \notin DOMAIN contentTypes
       THEN Respond([status |-> 404, error |-> "Content type not found", about |-> ""])
       ELSE /\ contentTypes' = [k \in DOMAIN contentTypes \ {id.row} |-> contentTypes[k]]
            /\ contents' = [k \in DOMAIN contents \ RowsOfType(id.row) |-> contents[k]]
            /\ response' = Json(200)
            /\ UNCHANGED <<call, activityLogs, generated,
                           contentTypeStore, contentStore>>

-----------------------------------------------------------------------------
(* The arguments of the calls.                                             *)

\* the texts of the payloads and of the enum options, character by character
S_Hello == <<"H", "e", "l", "l", "o">>
S_draft == <<"d", "r", "a", "f", "t">>
S_published == <<"p", "u", "b", "l", "i", "s", "h", "e", "d">>
S_archived == <<"a", "r", "c", "h", "i", "v", "e", "d">>
S_Red == <<"R", "e", "d">>
S_Green == <<"G", "r", "e", "e", "n">>
S_Blue == <<"B", "l", "u", "e">>
S_red == <<"r", "e", "d">>
S_date == <<"2", "0", "2", "4", "-", "0", "6", "-", "0", "1">>
S_dateISO == <<"2", "0", "2", "4", "-", "0", "6", "-", "0", "1", "T", "0", "0", ":", "0", "0", ":", "0", "0", ".", "0", "0", "0", "Z">>
S_leapISO == <<"2", "0", "2", "4", "-", "0", "2", "-", "2", "9", "T", "1", "2", ":", "3", "4", ":", "5", "6", ".", "7", "8", "9", "Z">>
S_local == <<"2", "0", "2", "4", "-", "0", "6", "-", "0", "1", "T", "2", "3", ":", "3", "0", ":", "0", "0">>
S_localMidnight == <<"2", "0", "0", "0", "-", "0", "1", "-", "0", "1", "T", "0", "0", ":", "0", "0", ":", "0", "0">>
S_month13 == <<"2", "0", "2", "4", "-", "1", "3", "-", "0", "1">>
S_notADate == <<"n", "o", "t", " ", "a", " ", "d", "a", "t", "e">>
S_prefix == <<"d", "a", "t", "a", ":", "i", "m", "a", "g", "e", "/", "p", "n", "g", ";", "b", "a", "s", "e", "6", "4", ",">>
S_prefixNoMime == <<"d", "a", "t", "a", ":", ";", "b", "a", "s", "e", "6", "4", ",">>
S_prefixTwice == <<"d", "a", "t", "a", ":", "a", ";", "b", "a", "s", "e", "6", "4", ",", "b", ";", "b", "a", "s", "e", "6", "4", ",">>

\* the number of characters of the base64 text of `bytes` bytes: four for
\* every three bytes, the last group cut short when the padding is left out
Base64Padding(bytes) == (3 - (bytes % 3)) % 3
Base64DataChars(bytes) == (4 * bytes + 2) \div 3

\* the base64 text of `bytes` bytes, with or without its `=` padding, bare or
\* as a data URL
Base64Of(bytes, padded, prefixed) ==
    Base64Str(IF prefixed THEN S_prefix ELSE <<>>,
              Base64DataChars(bytes),
              IF padded THEN [k \in 1..Base64Padding(bytes) |-> "="] ELSE <<>>)

MediaByteCounts ==
    {3, MaxMediaBytes - 1, MaxMediaBytes, MaxMediaBytes + 1, 3 * 1024 * 1024}

MediaValues ==
    {Base64Of(b, padded, prefixed) :
        b \in MediaByteCounts, padded \in BOOLEAN, prefixed \in BOOLEAN}

\* data URLs the pattern of the code does not take apart as their reader
\* would: a payload broken into lines, a data URL without a media type, a
\* media type that itself holds `;base64,`
OddMediaValues ==
    {Base64Str(S_prefix, Base64DataChars(MaxMediaBytes) - 2, <<"\n">>),
     Base64Str(S_prefix, 4, <<"\n", "A", "A", "A", "A">>),
     Base64Str(S_prefixNoMime, Base64DataChars(MaxMediaBytes) - 1, <<>>),
     Base64Str(S_prefixTwice, Base64DataChars(MaxMediaBytes) - 1, <<>>)}

DateValues ==
    {Str(S_date), Str(S_dateISO), Str(S_leapISO), Str(S_local), Str(S_localMidnight),
     Str(S_month13), Str(S_notADate),
     DateObj(MakeDay(2024, 6, 1), 0), InvalidDateObj}

\* one value of every runtime type
BasicValues == {Null, Num(42), Str(S_Hello), Bool(TRUE)}

OtherValues ==
    {Undefined, Num(0), NumNaN, Bool(FALSE), Str(<<>>),
     Str(S_draft), Str(S_archived), Str(S_Red), Str(S_red)}

RichValues == BasicValues \cup OtherValues \cup DateValues \cup MediaValues \cup OddMediaValues

\* the key is not in the payload
Absent == JSValue("absent", FALSE, 0, 0, <<>>, 0, <<>>)

\* the lists of options of the enum fields
EnumOptions == {<<S_draft, S_published>>, <<S_Red, S_Green, S_Blue>>}
NoOptions == <<>>

\* the longest field list of the calls with several fields
MaxFields == 2

\* the field names, by position in the field list
FieldNames == <<"title", "views", "status", "cover", "publishedDate">>

\* the hosts' time zones, in minutes ahead of UTC
TimeZones == {0, 60, 0 - 300}

\* a field list and a payload from one choice of (type, optional, options,
\* value) per position
Slots(types, optionals, options, values) ==
    [type : types, optional : optionals, options : options, value : values]

FieldsOf(slots) ==
    [k \in 1..Len(slots) |->
        Field(FieldNames[k], slots[k].type, slots[k].optional,
              IF slots[k].type = "enum" THEN slots[k].options ELSE NoOptions)]

DataOf(slots) ==
    [n \in {FieldNames[k] : k \in {j \in 1..Len(slots) : slots[j].value # Absent}} |->
        slots[CHOOSE k \in 1..Len(slots) : FieldNames[k] = n].value]

\* calls with up to MaxFields fields, a value of every runtime type (or none)
\* under each
GeneralSlots ==
    Slots(FieldTypes, {"true", "false"}, {<<S_draft, S_published>>},
          BasicValues \cup {Absent})

\* calls with one field, every value of the model under it, on every host
RichSlots ==
    {sl \in Slots(FieldTypes, {"true", "false", "unset"}, EnumOptions,
                  RichValues \cup {Absent}) :
        /\ sl.type # "enum" => sl.options = <<S_draft, S_published>>
        /\ (sl.type = "date" /\ sl.value.t = "string") => DateModelled(sl.value)}

\* a key of the payload that no field of the field list is named by
UndeclaredKey == "extra"

\* the payload d with the value v under the undeclared key as well
WithUndeclared(d, v) ==
    [n \in DOMAIN d \cup {UndeclaredKey} |-> IF n = UndeclaredKey THEN v ELSE d[n]]

\* calls with up to MaxFields fields whose payload has an undeclared key
UndeclaredSlots ==
    Slots(FieldTypes, {"true", "false"}, {<<S_draft, S_published>>},
          {Absent, Str(S_Hello)})

Init ==
    /\ \/ \E n \in 1..MaxFields : \E slots \in [1..n -> GeneralSlots] :
            /\ fields = FieldsOf(slots)
            /\ data = DataOf(slots)
            /\ tz = 0
       \/ \E n \in 1..MaxFields : \E slots \in [1..n -> UndeclaredSlots] :
          \E v \in BasicValues :
            /\ fields = FieldsOf(slots)
            /\ data = WithUndeclared(DataOf(slots), v)
            /\ tz = 0
       \/ \E sl \in RichSlots : \E zone \in TimeZones :
            /\ fields = FieldsOf(<<sl>>)
            /\ data = DataOf(<<sl>>)
            /\ tz = zone
    /\ i = 1
    /\ validated = EmptyRecord
    /\ outcome = "running"
    /\ result = NoRecord
    /\ error = NoError
    /\ other = NoCall
    /\ InitStores
    /\ contentTypes = EmptyRecord
    /\ response = NoResponse
    /\ idArg = Str(<<>>)
    /\ dataType = ""
    /\ entries = <<>>

Next ==
    \/ MissingRequired
    \/ SkipOptional
    \/ CaseNumber
    \/ CaseText
    \/ CaseDate
    \/ CaseBoolean
    \/ CaseRelation
    \/ CaseMedia
    \/ NoCase
    \/ Return

Spec == Init /\ [][Next]_vars

-----------------------------------------------------------------------------
(* The requests to the content-type routes.                                 *)

\* the kinds of the type FieldType and other texts
TypeTexts == FieldTypes \cup {"string", "Number", ""}

StringOptions == Array(<<Text("draft"), Text("published")>>)

\* the options of the enum fields of the requests: none, an array of
\* strings, an empty array, an array with a number in it, no array
EnumDefOptions ==
    {NoKey, StringOptions, Array(<<>>), Array(<<Text("draft"), NoText("number")>>), NoArray}

\* the names and the types of the field definitions of the requests
DefNames == {Text("title"), Text(""), NoText("undefined"), NoText("number")}
DefTypes == {Text(t) : t \in TypeTexts} \cup {NoText("undefined")}

\* field definitions of every kind, named or not; the fields that are no
\* enum have no options or an array of strings
FieldDefs ==
    {d \in [name : DefNames, type : DefTypes, options : EnumDefOptions] :
        d.type = Text("enum") \/ d.options \in {NoKey, StringOptions}}

\* the field definitions of the lists of several fields
ListedFieldDefs ==
    {FieldDef(Text("title"), Text("text"), NoKey),
     FieldDef(Text("views"), Text("text"), NoKey),
     FieldDef(Text("title"), Text("enum"), StringOptions),
     FieldDef(Text("views"), Text("enum"), StringOptions)}

\* the longest list of field definitions of a request
MaxDefs == 2

\* the values of `fields` of the request bodies
FieldLists ==
    {Array(<<d>>) : d \in FieldDefs}
        \cup UNION {{Array(l) : l \in [1..n -> ListedFieldDefs]} : n \in 2..MaxDefs}
        \cup {Array(<<>>), NoArray, NoKey}

PlainFields == Array(<<FieldDef(Text("title"), Text("text"), NoKey)>>)

\* the bodies {name, fields} of the requests
Bodies ==
    [name : {Text("article")}, fields : FieldLists]
        \cup [name : {Text("page"), Text(""), NoText("undefined"), NoText("number")},
              fields : {PlainFields,
                        Array(<<FieldDef(Text("title"), Text("text"), StringOptions)>>),
                        Array(<<FieldDef(Text("title"), Text("text"), NoKey),
                                FieldDef(Text("title"), Text("number"), NoKey)>>)}]

CreateContentType ==
    /\ \E body \in Bodies : createContentType(body.name, body.fields)
    /\ UNCHANGED handlers

UpdateContentType ==
    /\ \/ \E body \in Bodies : \E k \in TypeIds :
            updateContentType(IdOf(k), body.name, body.fields)
       \/ \E id \in {UnknownId, MalformedId, NoId} : \E name \in {Text("article"), Text("")} :
            updateContentType(id, name, PlainFields)
    /\ UNCHANGED handlers

\* no call of the validator is under way
InitNoCall ==
    /\ fields = <<>>
    /\ data = EmptyRecord
    /\ tz = 0
    /\ i = 1
    /\ validated = EmptyRecord
    /\ outcome = "none"
    /\ result = NoRecord
    /\ error = NoError
    /\ other = NoCall
    /\ InitStores
    /\ idArg = Str(<<>>)
    /\ dataType = ""
    /\ entries = <<>>

\* the most keys of the `data` of validateData
MaxKeys == 2

\* Object.entries of an object with the values vs under the first keys of
\* FieldNames, in the order the keys were put
EntriesOf(vs) == [k \in 1..Len(vs) |-> [key |-> FieldNames[k], value |-> vs[k]]]

\* the object of the entries es
ObjectOf(es) ==
    [n \in {es[k].key : k \in 1..Len(es)} |->
        es[CHOOSE k \in 1..Len(es) : es[k].key = n].value]

\* calls of validateData with every type: up to MaxKeys keys with a value of
\* every runtime type, or one key with any value of the model on any host
InitData ==
    /\ dataType \in FieldTypes
    /\ \/ \E n \in 0..MaxKeys : \E vs \in [1..n -> BasicValues \cup {Undefined}] :
            /\ entries = EntriesOf(vs)
            /\ tz = 0
       \/ \E v \in RichValues : \E zone \in TimeZones :
            /\ (dataType = "date" /\ v.t = "string") => DateModelled(v)
            /\ entries = EntriesOf(<<v>>)
            /\ tz = zone
    /\ data = ObjectOf(entries)
    /\ fields = <<>>
    /\ i = 1
    /\ validated = EmptyRecord
    /\ outcome = "running"
    /\ result = NoRecord
    /\ error = NoError
    /\ other = NoCall
    /\ InitStores
    /\ contentTypes = EmptyRecord
    /\ response = NoResponse
    /\ idArg = Str(<<>>)

NextData ==
    \/ DataNullish
    \/ DataCaseNumber
    \/ DataCaseText
    \/ DataCaseDate
    \/ DataCaseMedia
    \/ DataNoCase
    \/ DataReturn

SpecData == InitData /\ [][NextData]_vars

\* a UUID in the canonical lowercase form
S_uuid == <<"1", "2", "3", "e", "4", "5", "6", "7", "-", "e", "8", "9", "b", "-",
            "4", "2", "d", "3", "-", "a", "4", "5", "6", "-",
            "4", "2", "6", "6", "1", "4", "1", "7", "4", "0", "0", "0">>

\* the characters put in the place of one character of S_uuid
OtherChars == {"0", "9", "a", "f", "A", "F", "g", "G", "z", "-", " ", "\n"}

\* S_uuid with every hex digit that is a letter in upper case
S_UUID == [k \in 1..Len(S_uuid) |->
            CASE S_uuid[k] = "a" -> "A" [] S_uuid[k] = "b" -> "B"
              [] S_uuid[k] = "d" -> "D" [] S_uuid[k] = "e" -> "E"
              [] OTHER -> S_uuid[k]]

\* the texts validateUUID is called with: the two UUIDs, each text that
\* differs from them in one character, and texts a character shorter or
\* longer
UUIDTexts ==
    {S_uuid, S_UUID, <<>>}
        \cup {[S_uuid EXCEPT ![k] = ch] : k \in 1..Len(S_uuid), ch \in OtherChars}
        \cup {[S_UUID EXCEPT ![k] = ch] : k \in 1..Len(S_uuid), ch \in OtherChars}
        \cup {SubSeq(S_uuid, 1, Len(S_uuid) - 1), SubSeq(S_uuid, 2, Len(S_uuid))}
        \cup {S_uuid \o <<ch>> : ch \in OtherChars}
        \cup {<<ch>> \o S_uuid : ch \in OtherChars}

InitUUID ==
    /\ idArg \in {Str(c) : c \in UUIDTexts}
    /\ outcome = "running"
    /\ fields = <<>>
    /\ data = EmptyRecord
    /\ tz = 0
    /\ i = 1
    /\ validated = EmptyRecord
    /\ result = NoRecord
    /\ error = NoError
    /\ other = NoCall
    /\ InitStores
    /\ contentTypes = EmptyRecord
    /\ response = NoResponse
    /\ dataType = ""
    /\ entries = <<>>

NextUUID == validateUUID

SpecUUID == InitUUID /\ [][NextUUID]_vars

InitTypes ==
    /\ InitNoCall
    /\ contentTypes = EmptyRecord
    /\ response = NoResponse

NextTypes == CreateContentType \/ UpdateContentType

SpecTypes == InitTypes /\ [][NextTypes]_vars

-----------------------------------------------------------------------------
(* The requests to the database-backed server: two requests to the content *)
(* routes, handled one after the other or at the same time, and requests   *)
(* to the content-type routes at any time.                                  *)

\* a field definition with the key `optional`
OptionalDef(name, type, optional) ==
    [name |-> Text(name), type |-> Text(type), options |-> NoKey, optional |-> optional]

\* the field lists of the content types: a required title (the key
\* `optional` is absent) with optional views, with required views, and with
\* an optional field of each other type
TitleDef == FieldDef(Text("title"), Text("text"), NoKey)
FieldsViewsOptional == <<TitleDef, OptionalDef("views", "number", "true")>>
FieldsViewsRequired == <<TitleDef, OptionalDef("views", "number", "false")>>
FieldsOfEveryType ==
    <<TitleDef, OptionalDef("publishedDate", "date", "true"),
      OptionalDef("featured", "boolean", "true"),
      OptionalDef("author", "relation", "true"),
      OptionalDef("cover", "media", "true")>>

\* the bodies of the requests to the content-type routes; the last is one
\* the routes refuse
TypeBodies ==
    {[name |-> Text("article"), fields |-> Array(FieldsViewsOptional)],
     [name |-> Text("article"), fields |-> Array(FieldsViewsRequired)],
     [name |-> Text(""), fields |-> Array(FieldsViewsOptional)]}

\* the `data` of the requests to the content routes: a title; a title, a
\* number of views and a key no field is named by; a title and views beyond
\* the range of the numbers; a value for the fields of every type
DataTitle == [n \in {"title"} |-> Str(S_Hello)]
DataViews ==
    [n \in {"title", "views", UndeclaredKey} |->
        CASE n = "title" -> Str(S_Hello) [] n = "views" -> Num(42) [] OTHER -> Bool(TRUE)]
DataInfinity ==
    [n \in {"title", "views"} |-> IF n = "title" THEN Str(S_Hello) ELSE Infinity]
DataOfEveryType ==
    [n \in {"title", "publishedDate", "featured", "author", "cover"} |->
        CASE n = "title" -> Str(S_Hello)
          [] n = "publishedDate" -> Str(S_date)
          [] n = "featured" -> Bool(TRUE)
          [] n = "author" -> Str(UUIDOf(0))
          [] OTHER -> Base64Of(3, TRUE, TRUE)]
Payloads == {DataTitle, DataViews, DataInfinity, DataOfEveryType, NoData}

\* the ids of the requests to the content routes: of the first row of the
\* table, of no row, and a text that is no UUID
RequestIds == {Str(UUIDOf(1)), Str(UUIDOf(0)), Str(S_Hello)}

\* the requests to the content routes
Requests ==
    {Request("create", Undefined, tid, d) : tid \in {IdOf(k) : k \in TypeIds}, d \in Payloads}
        \cup {Request("create", Undefined, tid, DataTitle) :
                tid \in {UnknownId, MalformedId, NoId}}
        \cup {Request("read", id, NoId, NoData) : id \in RequestIds}
        \cup {Request("update", Str(UUIDOf(1)), NoId, d) : d \in Payloads}
        \cup {Request("update", id, NoId, DataTitle) : id \in RequestIds}
        \cup {Request("delete", id, NoId, NoData) : id \in RequestIds}

\* the requests that come while another is handled
RacingRequests ==
    {Request("create", Undefined, IdOf(1), DataViews),
     Request("read", Str(UUIDOf(1)), NoId, NoData),
     Request("update", Str(UUIDOf(1)), NoId, DataViews),
     Request("delete", Str(UUIDOf(1)), NoId, NoData)}

\* the tables before the two requests: empty, or with the content type
\* `article` and the row that POST /content/create put for a payload
Stored(fs, record) ==
    /\ contentTypes = [k \in {1} |-> [name |-> "article", fields |-> fs]]
    /\ contents = [k \in {1} |-> [content_type_id |-> 1, data |-> record]]
    /\ activityLogs = <<[action |-> "create", target_id |-> 1]>>
    /\ generated = [content_types |-> 1, contents |-> 1, demo |-> 0]

InitTables ==
    \/ /\ contentTypes = EmptyRecord
       /\ contents = EmptyRecord
       /\ activityLogs = <<>>
       /\ generated = [content_types |-> 0, contents |-> 0, demo |-> 0]
    \/ Stored(FieldsViewsOptional, DataTitle)
    \/ Stored(FieldsViewsRequired,
              [n \in {"title", "views"} |-> IF n = "title" THEN Str(S_Hello) ELSE Num(42)])
    \/ Stored(FieldsOfEveryType,
              [DataOfEveryType EXCEPT !["publishedDate"] = Str(S_dateISO)])

ServerCreateContentType ==
    /\ outcome = "none"
    /\ \E body \in TypeBodies : createContentType(body.name, body.fields)
    /\ UNCHANGED handlers

ServerUpdateContentType ==
    /\ outcome = "none"
    /\ \E body \in TypeBodies : \E id \in {IdOf(k) : k \in TypeIds} \cup {UnknownId} :
            updateContentType(id, body.name, body.fields)
    /\ UNCHANGED handlers

DeleteContentType ==
    /\ \E id \in {IdOf(k) : k \in TypeIds} \cup {UnknownId, MalformedId} :
        deleteContentType(id)
    /\ UNCHANGED handlers

\* a step of the handler of request h
Handles(h) ==
    \/ CreateGetType(h)
    \/ CreateInsert(h)
    \/ ReadContent(h)
    \/ UpdateRead(h)
    \/ UpdateGetType(h)
    \/ UpdateWrite(h)
    \/ DeleteRead(h)
    \/ DeleteWrite(h)
    \/ Validated(h)
    \/ \E action \in {"create", "update", "delete"} : LogActivity(h, action)

\* a step of a handler
HandlerStep == \E h \in DOMAIN handlers : Handles(h)

InitServer ==
    /\ fields = <<>>
    /\ data = EmptyRecord
    /\ tz = 0
    /\ i = 1
    /\ validated = EmptyRecord
    /\ outcome = "none"
    /\ result = NoRecord
    /\ error = NoError
    /\ other = NoCall
    /\ idArg = Str(<<>>)
    /\ dataType = ""
    /\ entries = <<>>
    /\ response = NoResponse
    /\ InitTables
    /\ \E first \in Requests : \E second \in RacingRequests :
            handlers = <<first, second>>
    /\ contentTypeStore = EmptyRecord
    /\ contentStore = EmptyRecord

\* a step of validateContentDataForType.  contentType.fields passed
\* validateFieldType, so every field has a type the switch has a case for.
ValidatorStep ==
    \/ MissingRequired
    \/ SkipOptional
    \/ CaseNumber
    \/ CaseText
    \/ CaseDate
    \/ CaseBoolean
    \/ CaseRelation
    \/ CaseMedia
    \/ Return

NextServer ==
    \/ ServerCreateContentType
    \/ ServerUpdateContentType
    \/ DeleteContentType
    \/ HandlerStep
    \/ ValidatorStep

SpecServer == InitServer /\ [][NextServer]_vars

-----------------------------------------------------------------------------
(* The demo server (demo-server.ts): the same routes over two Maps in       *)
(* memory.  Its handlers do not await: each runs from the request to the    *)
(* response with nothing in between.                                        *)

\* the checks of POST /content-type/create of the demo server, the first
\* failure first; NoResponse when the body passes
DemoCheckBody(name, fs) ==
    LET Check(f) == IF Not(f.name) \/ f.name.t # "string"
                    THEN BadRequest("Each field must have a name of type string", "")
                    ELSE validateFieldType(f.type)
    IN
    IF Not(name) \/ name.t # "string"
    THEN BadRequest("Content type name is required and must be a string", "")
    ELSE IF ~fs.isArray \/ Len(fs.items) = 0
    THEN BadRequest("Fields must be a non-empty array", "")
    ELSE IF \E k \in 1..Len(fs.items) : Check(fs.items[k]) # NoResponse
    THEN Check(fs.items[CHOOSE k \in 1..Len(fs.items) :
                    /\ Check(fs.items[k]) # NoResponse
                    /\ \A j \in 1..(k - 1) : Check(fs.items[j]) = NoResponse])
    ELSE NoResponse

\* generateUUID() of the demo server for the object the database-backed
\* server named `twin` on the same request (0 when it stored none): the ids
\* of the two servers are random, so an object both servers stored is named
\* alike here, and one only the demo server stored gets a name below zero
generateUUID(twin) == IF twin > 0 THEN twin ELSE 0 - (generated.demo + 1)

\* the handler h of the demo server runs when the database-backed server
\* has answered the same request
AtDemo(h, route, pc) ==
    /\ At(h, route, pc)
    /\ h = 2
    /\ handlers[1].pc = "done"

\* what the database-backed server stored on the request, 0 for nothing
Twin(route, k) ==
    IF handlers[1].route = route /\ handlers[1].response.status = 200 THEN k ELSE 0

\* what a handler of the demo server leaves alone when it writes no Map
demoIdle == <<contentTypes, contents, activityLogs, idle>>

\* POST /content-type/create of the demo server; the body is the `data` of
\* the request
DemoCreateContentType(h) ==
    /\ AtDemo(h, "content-type/create", "start")
    /\ LET name == handlers[h].data.name
           fs == handlers[h].data.fields
       IN
       IF DemoCheckBody(name, fs) # NoResponse
       THEN Reply(h, DemoCheckBody(name, fs)) /\ UNCHANGED <<contentTypeStore, generated>>
       ELSE \E id \in {generateUUID(Twin("content-type/create", generated.content_types))} :
                /\ id < 0 => generated.demo < MaxTypes
                \* contentTypeStore.set(id, contentType)
                /\ contentTypeStore' =
                        [k \in DOMAIN contentTypeStore \cup {id} |->
                            IF k = id THEN [name |-> name.text, fields |-> fs.items]
                            ELSE contentTypeStore[k]]
                /\ generated' = [generated EXCEPT
                                    !.demo = IF id < 0 THEN @ + 1 ELSE @]
                /\ Reply(h, Json(200))
    /\ UNCHANGED <<contentStore, demoIdle>>

\* POST /content/create of the demo server: contentTypeStore.get(content_type_id)
DemoCreateGetType(h) ==
    /\ AtDemo(h, "create", "start")
    /\ \E tid \in {handlers[h].content_type_id} :
        IF ~(tid.t = "string" /\ tid.text = "uuid" /\ tid.row \in DOMAIN contentTypeStore)
        THEN /\ Reply(h, [status |-> 400, error |-> "Invalid content_type_id", about |-> ""])
             /\ UNCHANGED <<tables, idle>>
        ELSE StartValidation(h, contentTypeStore[tid.row])

\* contentStore.set(content.id, content) with data: validatedData
DemoCreateSet(h) ==
    /\ AtDemo(h, "create", "write")
    /\ \E id \in {generateUUID(Twin("create", handlers[1].content))} :
        /\ id < 0 => generated.demo < MaxContents
        /\ contentStore' =
                [k \in DOMAIN contentStore \cup {id} |->
                    IF k = id
                    THEN [content_type_id |-> handlers[h].content_type_id.row,
                          data |-> handlers[h].validatedData]
                    ELSE contentStore[k]]
        /\ generated' = [generated EXCEPT !.demo = IF id < 0 THEN @ + 1 ELSE @]
        /\ handlers' = [handlers EXCEPT ![h].pc = "done", ![h].content = id,
                                        ![h].response = Json(200)]
    /\ UNCHANGED <<contentTypeStore, demoIdle>>

\* contentStore.get(id): the keys the text is
DemoRowsWithId(id) == {k \in DOMAIN contentStore : k > 0 /\ Str(UUIDOf(k)) = id}

\* POST /content/read of the demo server
DemoReadContent(h) ==
    /\ AtDemo(h, "read", "start")
    /\ IF ~uuidRegexTest(Collapsed(handlers[h].id))
       THEN Reply(h, BadRequest("Invalid UUID format", ""))
       ELSE IF DemoRowsWithId(handlers[h].id) = {}
       THEN Reply(h, NotFound)
       ELSE Reply(h, Json(200))
    /\ UNCHANGED <<tables, idle>>

\* POST /content/update of the demo server, up to the call of the validator
DemoUpdateGet(h) ==
    /\ AtDemo(h, "update", "start")
    /\ IF ~uuidRegexTest(Collapsed(handlers[h].id))
       THEN Reply(h, BadRequest("Invalid UUID format", "")) /\ UNCHANGED <<tables, idle>>
       ELSE IF DemoRowsWithId(handlers[h].id) = {}
       THEN Reply(h, NotFound) /\ UNCHANGED <<tables, idle>>
       ELSE \E k \in DemoRowsWithId(handlers[h].id) :
            IF contentStore[k].content_type_id \notin DOMAIN contentTypeStore
            THEN /\ Reply(h, [status |-> 400, error |-> "Content type not found",
                              about |-> ""])
                 /\ UNCHANGED <<tables, idle>>
            ELSE StartValidation(h, contentTypeStore[contentStore[k].content_type_id])

\* contentStore.set(id, updated), updated the row with data: validatedData
DemoUpdateSet(h) ==
    /\ AtDemo(h, "update", "write")
    /\ contentStore' = [k \in DOMAIN contentStore |->
                          IF k \in DemoRowsWithId(handlers[h].id)
                          THEN [contentStore[k] EXCEPT !.data = handlers[h].validatedData]
                          ELSE contentStore[k]]
    /\ Reply(h, Json(200))
    /\ UNCHANGED <<contentTypeStore, generated, demoIdle>>

\* POST /content/delete of the demo server: contentStore.delete(id)
DemoDeleteContent(h) ==
    /\ AtDemo(h, "delete", "start")
    /\ IF ~uuidRegexTest(Collapsed(handlers[h].id))
       THEN Reply(h, BadRequest("Invalid UUID format", "")) /\ UNCHANGED contentStore
       ELSE IF DemoRowsWithId(handlers[h].id) = {}
       THEN Reply(h, NotFound) /\ UNCHANGED contentStore
       ELSE /\ contentStore' = [k \in DOMAIN contentStore \ DemoRowsWithId(handlers[h].id) |->
                                  contentStore[k]]
            /\ Reply(h, Json(200))
    /\ UNCHANGED <<contentTypeStore, generated, demoIdle>>

-----------------------------------------------------------------------------
(* The same requests sent to both servers, one request after the other:     *)
(* handlers[1] is the request at the database-backed server, handlers[2]    *)
(* the same request at the demo server.                                     *)

\* the bodies of POST /content-type/create
BothBodies ==
    TypeBodies \cup {[name |-> Text("article"), fields |-> Array(FieldsOfEveryType)]}

\* the most rows of activity_logs
MaxLogs == 3

\* both servers have answered the request before
Answered == \A h \in DOMAIN handlers : handlers[h].pc = "done"

\* POST /content-type/create is sent to both servers; the database-backed
\* server answers
SendContentType ==
    /\ Answered /\ outcome = "none"
    /\ \E body \in BothBodies :
        /\ createContentType(body.name, body.fields)
        /\ handlers' =
                <<[Request("content-type/create", Undefined, NoId, body) EXCEPT
                        !.pc = "done", !.response = response'],
                  Request("content-type/create", Undefined, NoId, body)>>

\* a request to a content route is sent to both servers
SendContent ==
    /\ Answered /\ outcome = "none"
    /\ Len(activityLogs) < MaxLogs
    /\ \E r \in Requests : handlers' = <<r, r>>
    /\ UNCHANGED <<tables, idle>>

\* a step of the handler of the database-backed server
DatabaseStep == Handles(1)

\* a step of the handler of the demo server
DemoStep ==
    \E h \in DOMAIN handlers :
        \/ DemoCreateContentType(h)
        \/ DemoCreateGetType(h)
        \/ DemoCreateSet(h)
        \/ DemoReadContent(h)
        \/ DemoUpdateGet(h)
        \/ DemoUpdateSet(h)
        \/ DemoDeleteContent(h)
        \/ h = 2 /\ Validated(h)

InitBoth ==
    /\ fields = <<>>
    /\ data = EmptyRecord
    /\ tz = 0
    /\ i = 1
    /\ validated = EmptyRecord
    /\ outcome = "none"
    /\ result = NoRecord
    /\ error = NoError
    /\ other = NoCall
    /\ idArg = Str(<<>>)
    /\ dataType = ""
    /\ entries = <<>>
    /\ contentTypes = EmptyRecord
    /\ response = NoResponse
    /\ InitStores

NextBoth ==
    \/ SendContentType
    \/ SendContent
    \/ DatabaseStep
    \/ DemoStep
    \/ ValidatorStep

SpecBoth == InitBoth /\ [][NextBoth]_vars

-----------------------------------------------------------------------------
(* A call validated again: validateContentDataForType(R, fields), R the     *)
(* record a first call returned for the same field list.                    *)

\* the locals of the call
Locals == [i |-> i, validated |-> validated, outcome |-> outcome,
           result |-> result, error |-> error]

\* validateContentDataForType(result, fields): the first call is kept in
\* `other`, and the second starts with the record of the first as its payload
ValidateAgain ==
    /\ outcome = "returned" /\ other = NoCall
    /\ other' = Locals
    /\ data' = result
    /\ i' = 1
    /\ validated' = EmptyRecord
    /\ outcome' = "running"
    /\ result' = NoRecord
    /\ error' = NoError
    /\ UNCHANGED <<fields, tz, contentTypes, response, idArg, dataType, entries,
                   generated, stores, handlers>>

NextTwice == Next \/ ValidateAgain

SpecTwice == Init /\ [][NextTwice]_vars

-----------------------------------------------------------------------------
(* Two calls validateContentDataForType(data, fields) with the same         *)
(* arguments, from two request handlers: the variables i, validated,        *)
(* outcome, result, error are the locals of the call that is running, and   *)
(* `other` holds the locals of the call that waits.                         *)

\* a call that has not run yet
NewCall == [i |-> 1, validated |-> EmptyRecord, outcome |-> "running",
            result |-> NoRecord, error |-> NoError]

\* the other call goes on: the locals of the two calls change places
Switch ==
    /\ other.outcome = "running"
    /\ other' = Locals
    /\ i' = other.i
    /\ validated' = other.validated
    /\ outcome' = other.outcome
    /\ result' = other.result
    /\ error' = other.error
    /\ UNCHANGED <<fields, data, tz, contentTypes, response, idArg, dataType, entries,
                   generated, stores, handlers>>

\* calls with up to MaxFields fields, a number, a string or nothing under
\* each
PairSlots ==
    Slots(FieldTypes, {"true", "false"}, {<<S_draft, S_published>>},
          {Absent, Num(42), Str(S_Hello)})

InitCalls ==
    /\ \/ \E n \in 1..MaxFields : \E slots \in [1..n -> PairSlots] :
            /\ fields = FieldsOf(slots)
            /\ data = DataOf(slots)
            /\ tz = 0
       \/ \E sl \in RichSlots : \E zone \in TimeZones :
            /\ fields = FieldsOf(<<sl>>)
            /\ data = DataOf(<<sl>>)
            /\ tz = zone
    /\ i = 1
    /\ validated = EmptyRecord
    /\ outcome = "running"
    /\ result = NoRecord
    /\ error = NoError
    /\ other = NewCall
    /\ InitStores
    /\ contentTypes = EmptyRecord
    /\ response = NoResponse
    /\ idArg = Str(<<>>)
    /\ dataType = ""
    /\ entries = <<>>

NextCalls == Next \/ Switch

SpecCalls == InitCalls /\ [][NextCalls]_vars

-----------------------------------------------------------------------------
(* What the properties below speak about.                                  *)

FieldIndexes == 1..Len(fields)
NameAt(k)  == fields[k].name
ValueAt(k) == Get(data, fields[k].name)

\* the flag of the field is false: the key is false or absent (the default)
Required(k) == fields[k].optional \in {"false", "unset"}

\* the call failed, and field k is the field it failed on
FailedAt(k) == outcome = "threw" /\ i = k /\ error.field = NameAt(k)

\* the call does not get past field k, so it returns no record: at field k
\* the one thing it can do is throw
Rejects(k) ==
    /\ i <= k
    /\ outcome # "returned" /\ result = NoRecord
    /\ (outcome = "running" /\ i = k) => ENABLED Next
    /\ (outcome = "threw" /\ i = k) => error.field = NameAt(k)

\* the call does not fail on field k, and once past field k the record holds
\* v under the name of the field
Accepts(k, v) ==
    /\ ~(outcome = "threw" /\ i = k)
    /\ (outcome = "running" /\ i = k) => ENABLED Next
    /\ i > k => NameAt(k) \in DOMAIN validated /\ validated[NameAt(k)] = v
    /\ outcome = "returned" => NameAt(k) \in DOMAIN result /\ result[NameAt(k)] = v

\* C1: if the call returns a record, every field of the schema whose optional
\* flag is false is a key of the record, and every key of the record is the
\* name of a field of the schema.
C1_RequiredKeysAndNoOthers ==
    outcome = "returned" =>
        /\ \A k \in FieldIndexes : Required(k) => NameAt(k) \in DOMAIN result
        /\ \A key \in DOMAIN result : \E k \in FieldIndexes : NameAt(k) = key

\* C2: a field whose value is absent, null or undefined and whose optional
\* flag is false or unset makes the call fail: the call returns no record,
\* it does not get past the field, and the error it throws at the field
\* names the field and says the field is required.
C2_MissingRequiredFails ==
    \A k \in FieldIndexes :
        (IsNullish(ValueAt(k)) /\ Required(k)) =>
            /\ Rejects(k)
            /\ (outcome = "threw" /\ i = k) =>
                    error = [field |-> NameAt(k),
                             reason |-> "is required and cannot be null or undefined"]

C2_Witness ==
    /\ Len(fields) = 2 /\ i = 2 /\ outcome = "threw"
    /\ fields[2].optional = "false" /\ ValueAt(2) = Null
    /\ error.field = "views"

\* the payload and the field list of concrete scenario 1
Scenario1 ==
    /\ fields = <<Field("title", "text", "false", NoOptions),
                  Field("views", "number", "true", NoOptions)>>
    /\ data = [n \in {"title"} |-> Str(S_Hello)]

\* C3: a field with optional = true whose value is absent, null or undefined
\* raises no failure, and the record never has a key for it; scenario 1
\* (title:text, views:number optional, payload {title:"Hello"}) yields exactly
\* {title:"Hello"}.
C3_OptionalMissingSkipped ==
    /\ \A k \in FieldIndexes :
        (IsNullish(ValueAt(k)) /\ fields[k].optional = "true") =>
            /\ ~(outcome = "threw" /\ i = k)
            /\ (outcome = "running" /\ i = k) => ENABLED Next
            /\ NameAt(k) \notin DOMAIN validated
            /\ outcome = "returned" => NameAt(k) \notin DOMAIN result
    /\ Scenario1 =>
            /\ outcome # "threw"
            /\ outcome = "running" => ENABLED Next
            /\ outcome = "returned" => result = [n \in {"title"} |-> Str(S_Hello)]

C3_Witness == Scenario1 /\ outcome = "returned" /\ DOMAIN result = {"title"}

\* Field k violates the schema, by the table of kinds of the specification:
\* a required value is missing, or the value has the wrong runtime type for
\* the kind, is no valid date, is no option of the enum, or is media over
\* the size limit.
SchemaViolation(k) ==
    LET type == fields[k].type
        v == ValueAt(k)
    IN  IF IsNullish(v) THEN Required(k)
        ELSE CASE type \in {"number", "price"} -> TypeOf(v) # "number"
               [] type \in {"text", "relation"} -> TypeOf(v) # "string"
               [] type = "boolean" -> TypeOf(v) # "boolean"
               [] type = "date" ->
                    \/ ~(TypeOf(v) = "string" \/ InstanceOfDate(v))
                    \/ NewDate(v, tz).nan
               [] type = "media" -> TypeOf(v) # "string" \/ ExceedsLimit(v)
               [] type = "enum" ->
                    \/ TypeOf(v) # "string"
                    \/ \A j \in 1..Len(fields[k].options) : Str(fields[k].options[j]) # v

\* C4: when the payload violates the schema in more than one field, the call
\* reports one failure, for the first violating field in the order of the
\* field list, and returns no record.
C4_FirstViolationReported ==
    \A k \in FieldIndexes :
        (/\ SchemaViolation(k)
         /\ \A j \in 1..(k - 1) : ~SchemaViolation(j)
         /\ \E j \in (k + 1)..Len(fields) : SchemaViolation(j)) =>
            /\ Rejects(k)
            /\ outcome = "threw" => FailedAt(k)

\* the runtime type each kind asks for, and what the error says otherwise
ExpectedType(type) ==
    CASE type = "number"   -> "number"
      [] type = "text"     -> "string"
      [] type = "boolean"  -> "boolean"
      [] type = "relation" -> "string"
WrongTypeReason(type) ==
    CASE type = "number"   -> "must be a number"
      [] type = "text"     -> "must be a string"
      [] type = "boolean"  -> "must be a boolean"
      [] type = "relation" -> "must be a string (relation id)"

\* the payload and the field list of concrete scenario 2
Scenario2 ==
    /\ fields = <<Field("title", "text", "false", NoOptions),
                  Field("views", "number", "true", NoOptions)>>
    /\ data = [n \in {"title"} |-> Num(42)]

\* C5: for a field of kind number, text, boolean or relation with a non-null
\* value, the call accepts the field and copies the value unchanged into the
\* record exactly when the runtime type of the value is number (number),
\* string (text, relation) or boolean (boolean); otherwise it fails on that
\* field with a wrong-type error, not a missing-field error.  Scenario 2
\* (title:text, payload {title:42}) fails on title.
C5_PrimitiveKinds ==
    /\ \A k \in FieldIndexes :
        (fields[k].type \in {"number", "text", "boolean", "relation"}
            /\ ~IsNullish(ValueAt(k))) =>
            IF TypeOf(ValueAt(k)) = ExpectedType(fields[k].type)
            THEN Accepts(k, ValueAt(k))
            ELSE /\ Rejects(k)
                 /\ (outcome = "threw" /\ i = k) =>
                        error = [field |-> NameAt(k),
                                 reason |-> WrongTypeReason(fields[k].type)]
    /\ Scenario2 =>
            /\ outcome # "returned"
            /\ outcome = "threw" => error = [field |-> "title", reason |-> "must be a string"]

C5_Witness == Scenario2 /\ outcome = "threw" /\ error.field = "title" /\ result = NoRecord

\* C6: an enum field fails whenever the value is not a string or is not,
\* case-sensitively, one of the options of the field.
C6_EnumRejectsNonMembers ==
    \A k \in FieldIndexes :
        (/\ fields[k].type = "enum"
         /\ ~IsNullish(ValueAt(k))
         /\ \/ TypeOf(ValueAt(k)) # "string"
            \/ \A j \in 1..Len(fields[k].options) : Str(fields[k].options[j]) # ValueAt(k)) =>
            Rejects(k)

\* C7: a price field has number semantics: a numeric value is copied
\* unchanged into the record, and a non-null value of another runtime type
\* makes the call fail on the field.
C7_PriceAsNumber ==
    \A k \in FieldIndexes :
        (fields[k].type = "price" /\ ~IsNullish(ValueAt(k))) =>
            IF TypeOf(ValueAt(k)) = "number"
            THEN Accepts(k, ValueAt(k))
            ELSE Rejects(k)

\* the bytes a base64 text decodes to: three for every four characters that
\* are not padding (the run of a value of MediaValues is those characters)
DecodedBytes(v) == (v.run * 3) \div 4

\* C8: a media field whose base64 payload decodes to exactly 2,097,152 bytes
\* passes, and one whose payload decodes to 2,097,153 bytes fails with the
\* size-limit error, for the base64 texts that encode those byte counts,
\* padded or not, with the data URL prefix or without.
C8_MediaBoundary ==
    \A k \in FieldIndexes :
        (fields[k].type = "media" /\ ValueAt(k) \in MediaValues) =>
            /\ DecodedBytes(ValueAt(k)) = MaxMediaBytes => Accepts(k, ValueAt(k))
            /\ DecodedBytes(ValueAt(k)) = MaxMediaBytes + 1 =>
                    /\ Rejects(k)
                    /\ (outcome = "threw" /\ i = k) =>
                            error.reason = "exceeds 2MB size limit for type 'media'"

\* where the payload starts in a text that begins with a prefix
\* data:<mime>;base64, (a media type of at least one character; the last
\* `;base64,` ends the prefix), and 0 in a text without such a prefix
PayloadStart(v) ==
    LET c == Collapsed(v)
        ps == {p \in (Len(Chars_data) + 2)..Len(c) : OccursAt(c, Chars_base64, p)}
    IN  IF OccursAt(c, Chars_data, 1) /\ ps # {}
        THEN (CHOOSE p \in ps : \A q \in ps : q <= p) + Len(Chars_base64)
        ELSE 0

\* L: the length of the value once a leading prefix is removed
LengthWithoutPrefix(v) ==
    IF PayloadStart(v) > 0 THEN LengthFrom(v, PayloadStart(v)) ELSE StrLength(v)

\* C9: for a media field with a string value v, the size compared against
\* the limit of 2,097,152 is ceil(L*3/4), L being the length of v once a
\* leading data:<mime>;base64, prefix is removed (the length of v if it has
\* none); the call fails on the field exactly when that size exceeds the
\* limit, and otherwise the record stores v itself, prefix included.
C9_MediaSizeAfterPrefix ==
    \A k \in FieldIndexes :
        (fields[k].type = "media" /\ TypeOf(ValueAt(k)) = "string") =>
            IF (LengthWithoutPrefix(ValueAt(k)) * 3 + 3) \div 4 > 2097152
            THEN /\ Rejects(k)
                 /\ (outcome = "threw" /\ i = k) =>
                        error.reason = "exceeds 2MB size limit for type 'media'"
            ELSE Accepts(k, ValueAt(k))

\* the value of field k parses to a valid instant on this host
ParsesAt(k) ==
    /\ TypeOf(ValueAt(k)) = "string" \/ InstanceOfDate(ValueAt(k))
    /\ ~NewDate(ValueAt(k), tz).nan

\* what the record holds for a date field: the ISO-8601 UTC rendering of the
\* instant the value parses to on this host
IsoAt(k) == toISOString(NewDate(ValueAt(k), tz))

\* The first three parts of C10: a value that parses is replaced by the
\* ISO-8601 UTC text of its instant (a text in the form with the offset Z
\* that reads back as that instant on every host), "2024-06-01" by
\* "2024-06-01T00:00:00.000Z"; a string or Date that does not parse fails;
\* a value that is neither a string nor a Date fails.
DateFieldRules(k) ==
    /\ ParsesAt(k) =>
            /\ Accepts(k, IsoAt(k))
            /\ IsUTCDateTime(Collapsed(IsoAt(k)))
            /\ \A zone \in TimeZones : DateParse(IsoAt(k), zone) = NewDate(ValueAt(k), tz)
    /\ ValueAt(k) = Str(S_date) => Accepts(k, Str(S_dateISO))
    /\ ((TypeOf(ValueAt(k)) = "string" \/ InstanceOfDate(ValueAt(k)))
            /\ NewDate(ValueAt(k), tz).nan) =>
            /\ Rejects(k)
            /\ (outcome = "threw" /\ i = k) => error.reason = "must be a valid date"
    /\ ~(TypeOf(ValueAt(k)) = "string" \/ InstanceOfDate(ValueAt(k))) =>
            /\ Rejects(k)
            /\ (outcome = "threw" /\ i = k) =>
                    error.reason = "must be a date string or Date object"

\* the value names its instant by itself: a Date, a date-only text (read as
\* UTC) or a text with the offset Z
NamesInstant(v) ==
    \/ InstanceOfDate(v)
    \/ IsDateOnly(Collapsed(v))
    \/ IsUTCDateTime(Collapsed(v))

\* the output the call stored for field k is the output the same value gives
\* on a host in any time zone
SameOnEveryHost(k) ==
    i > k =>
        \A zone \in TimeZones :
            /\ ~NewDate(ValueAt(k), zone).nan
            /\ NameAt(k) \in DOMAIN validated
            /\ toISOString(NewDate(ValueAt(k), zone)) = validated[NameAt(k)]

\* C10, as amended: the rules of the date field hold, and the output depends
\* only on the input value when the value is a Date, a date-only text or a
\* text with an explicit offset (a date-time text without offset is read as
\* local time, so its output depends on the host's time zone too).
C10_DateNormalised ==
    \A k \in FieldIndexes :
        (fields[k].type = "date" /\ ~IsNullish(ValueAt(k))) =>
            /\ DateFieldRules(k)
            /\ (ParsesAt(k) /\ NamesInstant(ValueAt(k))) => SameOnEveryHost(k)

\* C10, as claimed: the rules of the date field hold, and the output depends
\* only on the input value.
C10_OutputDependsOnlyOnInput ==
    \A k \in FieldIndexes :
        (fields[k].type = "date" /\ ~IsNullish(ValueAt(k))) =>
            /\ DateFieldRules(k)
            /\ ParsesAt(k) => SameOnEveryHost(k)

\* scenario 4 on a host east of UTC
C10_Witness ==
    /\ fields[1].type = "date" /\ ValueAt(1) = Str(S_date) /\ tz = 60
    /\ outcome = "returned"
    /\ result = [n \in {NameAt(1)} |-> Str(S_dateISO)]

\* the keys of the payload that are the name of no field of the field list
UndeclaredKeys == DOMAIN data \ {NameAt(k) : k \in FieldIndexes}

\* C12: a key of the payload that is not the name of any field of the field
\* list is never a key of the record, under construction or returned, and
\* never causes a failure, whatever its value (null included): a failure is
\* for a declared field whose own value violates the schema.
C12_UndeclaredKeysDropped ==
    /\ \A key \in UndeclaredKeys :
            /\ key \notin DOMAIN validated
            /\ outcome = "returned" => key \notin DOMAIN result
    /\ outcome = "threw" =>
            /\ error.field \notin UndeclaredKeys
            /\ \E k \in FieldIndexes : FailedAt(k) /\ SchemaViolation(k)
    /\ (outcome = "running" /\ UndeclaredKeys # {}) => ENABLED Next

C12_Witness ==
    /\ UndeclaredKey \in DOMAIN data /\ data[UndeclaredKey] = Null
    /\ outcome = "returned"
    /\ DOMAIN result = {"title"}

\* the record R of a first call is being validated (or was validated) again
\* against the same field list
Revalidating == other.outcome = "returned"

\* C11: idempotence.  For every field list (over all eight kinds, required
\* and optional fields) and every payload, if the call returns a record R,
\* then the call on R with the same field list does not fail and returns a
\* record equal to R.
C11_Idempotent ==
    Revalidating =>
        /\ outcome # "threw"
        /\ outcome = "running" => ENABLED Next
        /\ outcome = "returned" => result = other.result

\* C11 without the kinds the switch has no case for: the six kinds it has
\* a case for validate their own output to the same record
C11_IdempotentOnCaseTypes ==
    (Revalidating /\ \A k \in FieldIndexes : fields[k].type \in CaseTypes) =>
        /\ outcome # "threw"
        /\ outcome = "running" => ENABLED Next
        /\ outcome = "returned" => result = other.result

-----------------------------------------------------------------------------
(* The content types.                                                       *)

\* the field definitions of the row `id` of the table
StoredFields(id) == contentTypes[id].fields

\* the last request was refused for the type of a field
RefusedType == response.status = 400 /\ response.error = "Invalid field type"

\* C13: validateFieldType accepts each kind of the closed set number, text,
\* date, boolean, relation, media, enum, price and fails for every other
\* string; so no create or update of a content type is refused for a field
\* of one of these kinds, enum and price included.
C13_ClosedSetAccepted ==
    /\ \A t \in TypeTexts \ FieldTypes : validateFieldType(Text(t)) # NoResponse
    /\ RefusedType => response.about \notin FieldTypes

\* C18: in every state of the table, every stored field definition of kind
\* enum has a non-empty list of string options, and no stored field
\* definition of another kind has an options list.
C18_OptionsExactlyOnEnum ==
    \A id \in DOMAIN contentTypes : \A k \in 1..Len(StoredFields(id)) :
        LET f == StoredFields(id)[k]
        IN  IF f.type = Text("enum")
            THEN /\ f.options.isArray /\ Len(f.options.items) > 0
                 /\ \A j \in 1..Len(f.options.items) : f.options.items[j].t = "string"
            ELSE ~f.options.present

\* the names of the stored field definitions are non-empty strings
C19_NamesAreNonEmptyStrings ==
    \A id \in DOMAIN contentTypes : \A k \in 1..Len(StoredFields(id)) :
        StoredFields(id)[k].name.t = "string" /\ StoredFields(id)[k].name.text # ""

\* C19: in every state of the table, the field names of each stored content
\* type are non-empty strings, no two of them equal.
C19_FieldNamesDistinct ==
    /\ C19_NamesAreNonEmptyStrings
    /\ \A id \in DOMAIN contentTypes :
        \A j, k \in 1..Len(StoredFields(id)) :
            j # k => StoredFields(id)[j].name # StoredFields(id)[k].name

-----------------------------------------------------------------------------
(* validateUUID.                                                            *)

\* the text cut at its hyphens: the lengths of the pieces, in order
RECURSIVE PieceLengths(_)
PieceLengths(c) ==
    IF \A k \in 1..Len(c) : c[k] # "-" THEN <<Len(c)>>
    ELSE LET h == CHOOSE k \in 1..Len(c) : c[k] = "-" /\ \A j \in 1..(k - 1) : c[j] # "-"
         IN  <<h - 1>> \o PieceLengths(SubSeq(c, h + 1, Len(c)))

\* five hyphen-separated groups of 8, 4, 4, 4 and 12 characters, each
\* character drawn from `alphabet`
HyphenatedGroups(c, alphabet) ==
    /\ PieceLengths(c) = <<8, 4, 4, 4, 12>>
    /\ \A k \in 1..Len(c) : c[k] = "-" \/ c[k] \in alphabet

LowerHex == {"0", "1", "2", "3", "4", "5", "6", "7", "8", "9", "a", "b", "c", "d", "e", "f"}
UpperHex == {"A", "B", "C", "D", "E", "F"}

\* C14, as claimed: validateUUID succeeds only for a text in the canonical
\* lowercase form, five hyphen-separated groups of 8, 4, 4, 4 and 12
\* characters drawn from 0-9 and a-f; any other text, one with the upper
\* case digits A-F included, fails.
C14_LowercaseOnly ==
    outcome # "running" =>
        (outcome = "returned" <=> HyphenatedGroups(Collapsed(idArg), LowerHex))

\* C14, as amended: validateUUID succeeds exactly for the texts of five
\* hyphen-separated groups of 8, 4, 4, 4 and 12 hex digits of either case
\* (0-9, a-f, A-F: the pattern ignores case); any other text fails with
\* the error of an invalid UUID format.
C14_EitherCase ==
    outcome # "running" =>
        /\ outcome = "returned" <=> HyphenatedGroups(Collapsed(idArg), LowerHex \cup UpperHex)
        /\ outcome = "threw" => error.reason = "Invalid UUID format"

C14_Witness == outcome = "returned" /\ idArg = Str(S_UUID)

-----------------------------------------------------------------------------
(* validateData.                                                            *)

EntryIndexes == 1..Len(entries)

\* the call does not get past entry k, so it returns no record: at entry k
\* the one thing it can do is throw, naming the key
KeyRejects(k) ==
    /\ i <= k
    /\ outcome # "returned" /\ result = NoRecord
    /\ (outcome = "running" /\ i = k) => ENABLED NextData
    /\ (outcome = "threw" /\ i = k) => error.field = entries[k].key

\* the value has the wrong runtime type for the kind, by the per-kind rules
\* of the schema-driven validator
WrongRuntimeType(type, v) ==
    CASE type = "number" -> TypeOf(v) # "number"
      [] type \in {"text", "relation", "media"} -> TypeOf(v) # "string"
      [] type = "boolean" -> TypeOf(v) # "boolean"
      [] type = "date" -> ~(TypeOf(v) = "string" \/ InstanceOfDate(v))

\* the normalized value: the ISO-8601 UTC text for a date, the value itself
\* for the other kinds
Normalized(type, v) == IF type = "date" THEN toISOString(NewDate(v, tz)) ELSE v

\* the rule of C15 for the calls whose type is one of `types`
PerKindRules(types) ==
    dataType \in types =>
        /\ \A k \in EntryIndexes :
                (~IsNullish(entries[k].value)
                    /\ WrongRuntimeType(dataType, entries[k].value)) => KeyRejects(k)
        /\ outcome = "returned" =>
                \A k \in EntryIndexes :
                    /\ entries[k].key \in DOMAIN result
                    /\ result[entries[k].key] = Normalized(dataType, entries[k].value)

\* C15: validateData(data, kind) applies the per-kind rule of the
\* schema-driven validator to every key: for each of the kinds number, text,
\* date, boolean, relation, media, a key whose value has the wrong runtime
\* type for the kind makes the call fail, and on success every key of data
\* is in the result with its normalized value.
C15_SamePerKindRules == PerKindRules(CaseTypes)

\* C15 for the four kinds the switch of validateData has a case for
C15_RulesOfDataCaseTypes == PerKindRules(DataCaseTypes)

\* C16: validateData treats every key as required: a key of the payload
\* whose value is null or undefined makes the call fail, for every kind,
\* with an error naming that key; the value is never skipped and never
\* copied into the result.
C16_EveryKeyRequired ==
    \A k \in EntryIndexes :
        IsNullish(entries[k].value) =>
            /\ KeyRejects(k)
            /\ (outcome = "threw" /\ i = k) =>
                    error = [field |-> entries[k].key,
                             reason |-> "cannot be null or undefined"]
            /\ entries[k].key \notin DOMAIN validated

C16_Witness ==
    /\ dataType = "boolean" /\ Len(entries) = 2
    /\ entries[1].value = Bool(TRUE) /\ entries[2].value = Null
    /\ outcome = "threw" /\ i = 2 /\ error.field = "views"

-----------------------------------------------------------------------------
(* Two calls with the same arguments.                                       *)

Finished(o) == o \in {"returned", "threw"}

\* both calls have ended
BothEnded == Finished(outcome) /\ Finished(other.outcome)

\* the two calls ended alike: the same record returned or the same error
SameOutcome ==
    /\ outcome = other.outcome
    /\ result = other.result
    /\ error = other.error

\* a step changes neither the field list nor the payload the calls were
\* given, nor anything the calls share
ArgumentsKept ==
    /\ fields' = fields
    /\ data' = data
    /\ UNCHANGED <<tz, contentTypes, response, idArg, dataType, entries>>

-----------------------------------------------------------------------------
(* The kinds the switch of validateContentDataForType has no case for.      *)

\* field k is of a kind no case matches, and its value is not null
Unmatched(k) == fields[k].type \notin CaseTypes /\ ~IsNullish(ValueAt(k))

\* the call does not fail at field k, whatever the runtime type of the value
NotFailedAt(k) ==
    /\ ~(outcome = "threw" /\ i = k)
    /\ (outcome = "running" /\ i = k) => ENABLED Next

\* C20, as claimed: for a field whose kind no branch of the per-kind check
\* matches, a non-null value is neither validated nor rejected: the call does
\* not fail because of the field, whatever the runtime type of the value, and
\* the value is accepted unchanged into the returned record under the name of
\* the field.
C20_UnmatchedValueStored ==
    \A k \in FieldIndexes : Unmatched(k) => Accepts(k, ValueAt(k))

\* the iteration of a field of an unmatched kind leaves the record as it was
UnmatchedStoresNothing ==
    (InLoop /\ Unmatched(i)) => (validated' = validated /\ result' = result)

\* no other field of the list has the name of field k
OnlyOfItsName(k) == \A j \in FieldIndexes \ {k} : NameAt(j) # NameAt(k)

\* C20, as amended: for such a field the call does not fail because of the
\* field, whatever the runtime type of the value, and the field stores
\* nothing: its iteration leaves the record as it was, so the record, under
\* construction or returned, has no key for the field unless another field
\* of the same name stored one.
C20_UnmatchedValueDropped ==
    /\ [](\A k \in FieldIndexes :
            Unmatched(k) =>
                /\ NotFailedAt(k)
                /\ OnlyOfItsName(k) =>
                    /\ NameAt(k) \notin DOMAIN validated
                    /\ outcome = "returned" => NameAt(k) \notin DOMAIN result)
    /\ [][UnmatchedStoresNothing]_vars

\* scenario 3 of the specification on the code: status is "archived", no
\* option of the enum, and the call returns the empty record
C20_Witness ==
    /\ Len(fields) = 1 /\ fields[1].type = "enum"
    /\ fields[1].options = <<S_draft, S_published>>
    /\ ValueAt(1) = Str(S_archived)
    /\ outcome = "returned" /\ result = EmptyRecord

-----------------------------------------------------------------------------
(* The content routes of the database-backed server.                        *)

\* handler h of a content create or update writes its row in this step
Writes(h) ==
    /\ handlers[h].route \in {"create", "update"}
    /\ handlers[h].pc = "write" /\ handlers'[h].pc = "log"

\* the row handler h wrote
Written(h) == IF handlers[h].route = "create" THEN handlers'[h].content
              ELSE handlers[h].content

\* the step leaves every row but row k as it was
OtherRowsKept(k) ==
    \A j \in (DOMAIN contents \cup DOMAIN contents') \ {k} :
        j \in DOMAIN contents /\ j \in DOMAIN contents' /\ contents'[j] = contents[j]

\* C21: when a content create or update succeeds, the data stored for the
\* row equals the record validateContentDataForType returned to the handler
\* (so no undeclared key and no skipped optional field is stored, and an
\* update replaces the data wholesale); an update leaves the id and the
\* content_type_id of the row and every other row unchanged.
C21_StoredIsValidated ==
    [][\A h \in DOMAIN handlers :
        Writes(h) =>
            /\ Written(h) \in DOMAIN contents'
            /\ contents'[Written(h)].data = handlers[h].validatedData
            /\ OtherRowsKept(Written(h))
            /\ handlers[h].route = "update" =>
                /\ Written(h) \in DOMAIN contents
                /\ contents'[Written(h)].content_type_id
                        = contents[Written(h)].content_type_id]_vars

\* C21 but for the conversion to JSON: the data stored is what
\* JSON.stringify writes of the record
C21_StoredIsValidatedAsJSON ==
    [][\A h \in DOMAIN handlers :
        Writes(h) =>
            /\ Written(h) \in DOMAIN contents'
            /\ contents'[Written(h)].data = JSONObject(handlers[h].validatedData)
            /\ OtherRowsKept(Written(h))
            /\ handlers[h].route = "update" =>
                /\ Written(h) \in DOMAIN contents
                /\ contents'[Written(h)].content_type_id
                        = contents[Written(h)].content_type_id]_vars

\* handler h takes a step
Steps(h) == handlers'[h] # handlers[h]

\* the content_type_id of the request of handler h names no row of
\* content_types
NamesNoType(h) ==
    ~(handlers[h].content_type_id.text = "uuid"
        /\ handlers[h].content_type_id.row \in DOMAIN contentTypes)

\* the request of handler h fails in this step for one of the three reasons:
\* a create looks up a content_type_id that names no content type, an update
\* checks an id that is no UUID, or the validator threw
FailsNow(h) ==
    /\ Steps(h)
    /\ \/ handlers[h].route = "create" /\ handlers[h].pc = "start" /\ NamesNoType(h)
       \/ /\ handlers[h].route = "update" /\ handlers[h].pc = "start"
          /\ ~uuidRegexTest(Collapsed(handlers[h].id))
       \/ /\ handlers[h].route \in {"create", "update"}
          /\ handlers[h].pc = "validating" /\ outcome = "threw"

\* the answer is status 400 with an error message ({success: false, error})
Refused(r) == r.status = 400 /\ r.error # ""

\* C22: a content create or update that fails because its content_type_id
\* names no content type, because its id is no well-formed UUID or because
\* the validator rejects its payload is answered with 400, success = false
\* and an error message, and no step of the request up to there changes the
\* table contents.
C22_FailureIs400 ==
    [][\A h \in DOMAIN handlers :
        /\ FailsNow(h) =>
            /\ handlers'[h].pc = "done"
            /\ Refused(handlers'[h].response)
        /\ (Steps(h) /\ handlers[h].route \in {"create", "update"}
                /\ handlers[h].pc \in {"start", "getType", "validating"}) =>
            contents' = contents]_vars

\* C22 for the requests whose content_type_id is a UUID or is absent
C22_FailureIs400ForUUIDs ==
    [][\A h \in DOMAIN handlers :
        /\ (FailsNow(h) /\ handlers[h].content_type_id # MalformedId) =>
            /\ handlers'[h].pc = "done"
            /\ Refused(handlers'[h].response)
        /\ (Steps(h) /\ handlers[h].route \in {"create", "update"}
                /\ handlers[h].pc \in {"start", "getType", "validating"}) =>
            contents' = contents]_vars

-----------------------------------------------------------------------------
(* The content-type routes.                                                 *)

\* what the routes ask of a body: the name is a non-empty string, the
\* fields are a non-empty array, every field has a non-empty string for a
\* name and a type validateFieldType accepts
NonEmptyString(v) == v.t = "string" /\ v.text # ""
ValidBody(name, fs) ==
    /\ NonEmptyString(name)
    /\ fs.isArray /\ Len(fs.items) > 0
    /\ \A k \in 1..Len(fs.items) :
        /\ NonEmptyString(fs.items[k].name)
        /\ validateFieldType(fs.items[k].type) = NoResponse

\* the ids of the requests that are strings
StringIds == {IdOf(k) : k \in TypeIds} \cup {UnknownId, MalformedId}

\* the step is an update that replaces the name and the fields of row k and
\* leaves the other rows and the ids
Replaces(k, name, fs) ==
    /\ DOMAIN contentTypes' = DOMAIN contentTypes
    /\ k \in DOMAIN contentTypes
    /\ contentTypes'[k] = [name |-> name.text, fields |-> fs.items]
    /\ \A j \in DOMAIN contentTypes \ {k} : contentTypes'[j] = contentTypes[j]

\* POST /content-type/update with a body the route accepts, for an id that
\* names a row (the row is replaced, or the table is left as it was) and
\* for an id that names none
UpdateAsClaimed(id, name, fs) ==
    IF id.row \in DOMAIN contentTypes /\ id.text = "uuid"
    THEN contentTypes' = contentTypes \/ Replaces(id.row, name, fs)
    ELSE response'.status = 404 /\ contentTypes' = contentTypes

\* C23: content-type create and update store a content type only when the
\* name is a non-empty string, the fields are a non-empty array, every field
\* has a non-empty string name and every type is accepted by
\* validateFieldType; otherwise the answer is 400 and the table is
\* unchanged.  A successful update replaces the name and the field list of
\* the row and leaves its id and every other row; an update of an id that
\* names no row is answered with 404 and changes nothing.
C23_TypeRoutes ==
    [][/\ \A body \in Bodies :
            createContentType(body.name, body.fields) =>
                \/ ValidBody(body.name, body.fields)
                \/ Refused(response') /\ contentTypes' = contentTypes
       /\ \A body \in Bodies \cup [name : {Text("article"), Text("")}, fields : {PlainFields}] :
          \A id \in StringIds :
            updateContentType(id, body.name, body.fields) =>
                IF ValidBody(body.name, body.fields)
                THEN UpdateAsClaimed(id, body.name, body.fields)
                ELSE Refused(response') /\ contentTypes' = contentTypes]_vars

\* C23 for the updates whose id is a UUID
C23_TypeRoutesForUUIDs ==
    [][/\ \A body \in Bodies :
            createContentType(body.name, body.fields) =>
                \/ ValidBody(body.name, body.fields)
                \/ Refused(response') /\ contentTypes' = contentTypes
       /\ \A body \in Bodies \cup [name : {Text("article"), Text("")}, fields : {PlainFields}] :
          \A id \in StringIds \ {MalformedId} :
            updateContentType(id, body.name, body.fields) =>
                IF ValidBody(body.name, body.fields)
                THEN UpdateAsClaimed(id, body.name, body.fields)
                ELSE Refused(response') /\ contentTypes' = contentTypes]_vars

-----------------------------------------------------------------------------
(* Content that is not there.                                               *)

\* handler h of a read, update or delete takes its first step: validateUUID
\* and queries.readContent
LooksUp(h) ==
    /\ handlers[h].route \in {"read", "update", "delete"}
    /\ handlers[h].pc = "start"
    /\ Steps(h)

\* the ids of the rows that were deleted
Deleted == (1..generated.contents) \ DOMAIN contents

\* C24: a content read, update or delete with a well-formed id that no row
\* has is answered with 404 'Content not found' and leaves the table; with
\* an id that is no well-formed UUID it is answered with 400 by its first
\* step, whatever the table holds.  A row that was deleted stays deleted, so
\* every request for its id that comes later gets that 404.
C24_NotFound ==
    /\ [][\A h \in DOMAIN handlers :
            LooksUp(h) =>
                IF ~uuidRegexTest(Collapsed(handlers[h].id))
                THEN /\ handlers'[h].pc = "done"
                     /\ Refused(handlers'[h].response)
                     /\ contents' = contents
                ELSE RowsWithId(handlers[h].id) = {} =>
                        /\ handlers'[h].pc = "done"
                        /\ handlers'[h].response.status = 404
                        /\ handlers'[h].response.error = "Content not found"
                        /\ contents' = contents]_vars
    /\ [][\A k \in Deleted : k \notin DOMAIN contents']_vars

\* the first request deleted row 1, and the second, a read, update or delete
\* of the same id that came later, was answered with 404
C24_Witness ==
    /\ handlers[1].route = "delete" /\ handlers[1].id = Str(UUIDOf(1))
    /\ handlers[1].pc = "done" /\ handlers[1].response.status = 200
    /\ handlers[2].route = "update" /\ handlers[2].id = Str(UUIDOf(1))
    /\ handlers[2].pc = "done" /\ handlers[2].response = NotFound
    /\ handlers[2].existing = NoRecord
    /\ 1 \in Deleted

-----------------------------------------------------------------------------
(* The rows of contents and the content types they belong to.               *)

\* the check validateContentDataForType makes of a value under a field of
\* the type
PassesKindCheck(type, v) ==
    CASE type = "number" -> TypeOf(v) = "number"
      [] type = "text" -> TypeOf(v) = "string"
      [] type = "date" ->
            /\ TypeOf(v) = "string" \/ InstanceOfDate(v)
            /\ ~NewDate(v, 0).nan
      [] type = "boolean" -> TypeOf(v) = "boolean"
      [] type = "relation" -> TypeOf(v) = "string"
      [] type = "media" -> TypeOf(v) = "string" /\ ~ExceedsLimit(v)
      [] OTHER -> TRUE

\* the data conforms to the field list: every required field is there, and
\* every field that is there passes the check of its type
Conforms(record, fs) ==
    \A k \in 1..Len(fs) :
        /\ ~Truthy(fs[k].optional) => fs[k].name \in DOMAIN record
        /\ fs[k].name \in DOMAIN record =>
                PassesKindCheck(fs[k].type, record[fs[k].name])

\* C25: in every reachable state the data of every row of contents conforms
\* to the current field list of its content type: every required field is
\* present and every present field passes the check of its kind.
C25_ContentConforms ==
    \A k \in DOMAIN contents :
        contents[k].content_type_id \in DOMAIN contentTypes =>
            Conforms(contents[k].data, FieldsOfRow(contentTypes[contents[k].content_type_id]))

\* the data written conforms to the field list the handler read, but for
\* the numbers that are not finite
C25_WrittenConforms ==
    [][\A h \in DOMAIN handlers :
        (Writes(h) /\ handlers[h].data # DataInfinity) =>
            Conforms(contents'[Written(h)].data, FieldsOfRow(handlers[h].contentType))]_vars

\* C26: in every reachable state of the database-backed server the
\* content_type_id of every row of contents identifies a row of
\* content_types: a create stores a row only for a content type that exists,
\* no step changes the content_type_id of a row, and deleting a content type
\* removes the rows that reference it, also when the delete comes between
\* the existence check and the INSERT of a content create.
C26_ContentTypeExists ==
    /\ [](\A k \in DOMAIN contents : contents[k].content_type_id \in DOMAIN contentTypes)
    /\ [][\A k \in DOMAIN contents \cap DOMAIN contents' :
            contents'[k].content_type_id = contents[k].content_type_id]_vars

\* a content create read its content type and validated its payload, the
\* content type was deleted, and the INSERT failed: no row was stored
C26_Witness ==
    /\ handlers[1].route = "create" /\ handlers[1].pc = "done"
    /\ handlers[1].contentType # NoRecord
    /\ handlers[1].validatedData # NoRecord
    /\ handlers[1].response = InternalError
    /\ handlers[2].pc = "start"
    /\ contentTypes = EmptyRecord /\ contents = EmptyRecord
    /\ generated.contents = 1

-----------------------------------------------------------------------------
(* Requests for the same row at the same time.                              *)

\* the DELETE of handler h, a content delete, removed the row
HasDeleted(h) ==
    /\ handlers[h].route = "delete"
    /\ \/ handlers[h].pc = "log"
       \/ handlers[h].pc = "done" /\ handlers[h].response.status = 200

\* handler h, a content update, comes to its UPDATE statement when the row
\* is gone
WritesTooLate(h) ==
    /\ handlers[h].route = "update" /\ handlers[h].pc = "write"
    /\ Steps(h)
    /\ RowsWithId(handlers[h].id) = {}

\* C27: when a content update of X interleaves with a content delete of X,
\* the row never exists again once the DELETE has removed it: an update that
\* passed its existence check before the delete and comes to its UPDATE
\* statement after it is answered with 404 and writes nothing (no row, no
\* activity log), so no interleaving leaves X stored with the data of the
\* update.
C27_UpdateAfterDelete ==
    /\ [](\A h \in DOMAIN handlers : HasDeleted(h) => RowsWithId(handlers[h].id) = {})
    /\ [][\A h \in DOMAIN handlers :
            WritesTooLate(h) =>
                /\ handlers'[h].pc = "done"
                /\ handlers'[h].response = NotFound
                /\ contents' = contents
                /\ activityLogs' = activityLogs]_vars

\* the update of row 1 read the row and validated its payload, the delete
\* removed the row, and the update was answered with 404
C27_Witness ==
    /\ handlers[1].route = "update" /\ handlers[1].id = Str(UUIDOf(1))
    /\ handlers[1].existing # NoRecord /\ handlers[1].validatedData # NoRecord
    /\ handlers[1].pc = "done" /\ handlers[1].response = NotFound
    /\ handlers[2].route = "delete" /\ handlers[2].id = Str(UUIDOf(1))
    /\ handlers[2].pc = "done" /\ handlers[2].response.status = 200
    /\ 1 \in DOMAIN contentTypes
    /\ contents = EmptyRecord

\* the rows of activity_logs of the deletes of row k
DeleteLogs(k) ==
    {j \in DOMAIN activityLogs :
        activityLogs[j] = [action |-> "delete", target_id |-> k]}

\* both requests are deletes of row 1, which was there when the first came,
\* both have ended, and nothing else deleted the row (its content type is
\* still there)
BothDeleted ==
    /\ \A h \in DOMAIN handlers :
        /\ handlers[h].route = "delete" /\ handlers[h].id = Str(UUIDOf(1))
        /\ handlers[h].pc = "done"
    /\ generated.contents >= 1
    /\ 1 \in DOMAIN contentTypes

\* C28: when two content deletes of the same existing row run at the same
\* time, under every interleaving of their read and delete steps exactly one
\* is answered with success and the other with 404 'Content not found', and
\* exactly one 'delete' row is written to the activity log for the row.
C28_OneDeleteSucceeds ==
    BothDeleted =>
        /\ \E h \in DOMAIN handlers :
            /\ handlers[h].response.status = 200
            /\ \A g \in DOMAIN handlers \ {h} : handlers[g].response = NotFound
        /\ Cardinality(DeleteLogs(1)) = 1

\* both deletes read the row before either deleted it
C28_Witness ==
    /\ BothDeleted
    /\ \A h \in DOMAIN handlers : handlers[h].existing # NoRecord
    /\ handlers[2].response.status = 200

\* the Map contentStore as the routes answer it: res.json writes the data
\* as JSON.stringify does
AsAnswered(store) ==
    [k \in DOMAIN store |-> [store[k] EXCEPT !.data = JSONObject(@)]]

\* C29: on the same sequence of requests to the content-type create route
\* and to the content create, read, update and delete routes, the demo
\* server and the database-backed server answer each request with the same
\* status and then hold the same content types and the same content
\* records (ids named alike), also when two content types are created with
\* the same name.
C29_ServersAgree ==
    (handlers # <<>> /\ Answered) =>
        /\ handlers[1].response.status = handlers[2].response.status
        /\ contentTypeStore = contentTypes
        /\ AsAnswered(contentStore) = contents

\* the servers agree as long as no content type was created with a name
\* another has, on the requests the database-backed server does not answer
\* with 500
C29_ServersAgreeOnFreeNames ==
    (/\ handlers # <<>> /\ Answered
     /\ \A k \in DOMAIN contentTypeStore : k > 0
     /\ handlers[1].response.status # 500) =>
        /\ handlers[1].response.status = handlers[2].response.status
        /\ contentTypeStore = contentTypes
        /\ AsAnswered(contentStore) = contents

\* a second content type named `article` was created at the demo server
\* and refused by the database-backed server
C29_SameName ==
    /\ handlers # <<>> /\ Answered
    /\ handlers[1].route = "content-type/create"
    /\ handlers[1].response = Json(500)
    /\ handlers[2].response = Json(200)
    /\ Cardinality(DOMAIN contentTypeStore) = 2
    /\ Cardinality(DOMAIN contentTypes) = 1

====
